---------------------------- MODULE Spec2Model ----------------------------
(***************************************************************************)
(* Model of the ai-code-review pipeline: the Response Parser               *)
(* (OpenAIProvider.parseReviewResponse / extractSummary), the Diff Filter  *)
(* (CodeReviewer.filterDiffs / matchPatterns), the Review Orchestrator     *)
(* (CodeReviewer.review with its notification manager, and                 *)
(* CodeReviewer.reviewSingleFile), the configuration loader                *)
(* (loadConfig / mergeConfig / loadEnvConfig) and the custom prompt        *)
(* templates (buildReviewPrompt / buildSummaryPrompt).                     *)
(*                                                                         *)
(* Text is a sequence of lexemes.  A lexeme is either one structural       *)
(* character (a backtick, "#", ":", a digit, a JSON bracket, a space, a    *)
(* newline written "NL") or one word that the program's regular            *)
(* expressions treat as a unit (a label such as "json", a severity word,   *)
(* a CJK token written in ASCII, e.g. "DI" for the character before a line *)
(* number and "HANG" for the one after it).  Every regular expression of   *)
(* the source is translated position by position over these sequences.     *)
(***************************************************************************)
EXTENDS Integers, Sequences, FiniteSets, TLC

(***************************************************************************)
(* Lexemes                                                                 *)
(***************************************************************************)
NL == "NL"
SP == " "
BT == "BT"
Q == "Q"
HASH == "#"
COLON == ":"
FWCOLON == "FWCOLON"
STAR == "*"

\* \s of the regular expressions
WS == {SP, NL}

Digits == {"0", "1", "2"}

DigitVal(c) == CASE c = "0" -> 0 [] c = "1" -> 1 [] c = "2" -> 2 [] OTHER -> 0

\* the two colons of the character class (ASCII colon, full-width colon)
Colons == {COLON, FWCOLON}

\* number of characters a lexeme stands for (String.prototype.length)
Width(c) ==
  CASE c = "LONG" -> 200
    [] c \in {"json", "null", "info", "text", "line", "code"} -> 4
    [] c \in {"error", "ERROR"} -> 5
    [] c = "issues" -> 6
    [] c \in {"warning", "message", "summary", "Summary"} -> 7
    [] c \in {"severity", "critical"} -> 8
    [] c \in {"OVERALL_ZH", "CRITICAL_ZH", "SUGGEST_ZH"} -> 4
    [] c \in {"WARN_ZH", "ADVICE_ZH", "WHOLE_ZH", "SUM_ZH", "RED", "ORANGE", "BLUE", "MEMO", "BULB"} -> 2
    [] OTHER -> 1

RECURSIVE StrLength(_)
StrLength(s) == IF s = <<>> THEN 0 ELSE Width(Head(s)) + StrLength(Tail(s))

(***************************************************************************)
(* Sequence helpers                                                        *)
(***************************************************************************)
Min(a, b) == IF a < b THEN a ELSE b
Max(a, b) == IF a > b THEN a ELSE b

\* F applied to the value of a, b: a and b are evaluated once, before F
Bind(a, F(_)) == CHOOSE x \in {F(v) : v \in {a}} : TRUE
Bind2(a, b, F(_, _)) == CHOOSE x \in {F(v, w) : v \in {a}, w \in {b}} : TRUE

\* s[i..j], empty when j < i
Slice(s, i, j) == IF j < i THEN <<>> ELSE SubSeq(s, i, j)

\* does p occur in s at position i
At(s, i, p) ==
  /\ i >= 1
  /\ i + Len(p) - 1 <= Len(s)
  /\ \A k \in 1..Len(p) : s[i + k - 1] = p[k]

\* least position >= from where p occurs, 0 if none
IndexOf(s, p, from) ==
  LET hits == {i \in Max(from, 1)..(Len(s) - Len(p) + 1) : At(s, i, p)}
  IN IF hits = {} THEN 0 ELSE CHOOSE i \in hits : \A j \in hits : i <= j

\* least position >= from holding a lexeme of set S, 0 if none
IndexIn(s, S, from) ==
  LET hits == {i \in Max(from, 1)..Len(s) : s[i] \in S}
  IN IF hits = {} THEN 0 ELSE CHOOSE i \in hits : \A j \in hits : i <= j

\* first position >= i that holds no lexeme of S (Len(s)+1 if none): the end of
\* a greedy run S* started at i
RunEnd(s, S, i) ==
  LET stops == {j \in i..Len(s) : s[j] \notin S}
  IN IF stops = {} THEN Len(s) + 1 ELSE CHOOSE j \in stops : \A k \in stops : j <= k

\* first position <= i+1 such that s[that..i] lies in S: the start of the run
\* of S that ends at i
RunStart(s, S, i) ==
  LET stops == {j \in 1..i : s[j] \notin S}
  IN IF stops = {} THEN 1 ELSE (CHOOSE j \in stops : \A k \in stops : j >= k) + 1

Contains(s, S) == \E i \in 1..Len(s) : s[i] \in S

\* String.prototype.trim
Trim(s) ==
  LET keep == {i \in 1..Len(s) : s[i] \notin WS}
  IN IF keep = {} THEN <<>>
     ELSE Slice(s, CHOOSE i \in keep : \A j \in keep : i <= j,
                   CHOOSE i \in keep : \A j \in keep : i >= j)

RECURSIVE Concat(_)
Concat(ss) == IF ss = <<>> THEN <<>> ELSE Head(ss) \o Concat(Tail(ss))

\* Number.parseInt(digits, 10) of a non-empty run of digits
RECURSIVE ParseInt(_)
ParseInt(ds) ==
  IF ds = <<>> THEN 0 ELSE ParseInt(Slice(ds, 1, Len(ds) - 1)) * 10 + DigitVal(ds[Len(ds)])

(***************************************************************************)
(* JavaScript values.  One record shape for all of them: t is the type,    *)
(* n a number's value, s a string's lexemes, k an object's keys and a an   *)
(* array's elements or an object's member values (same order as k).        *)
(***************************************************************************)
Undef == [t |-> "undefined", n |-> 0, s |-> <<>>, k |-> <<>>, a |-> <<>>]
Null == [t |-> "null", n |-> 0, s |-> <<>>, k |-> <<>>, a |-> <<>>]
Num(x) == [t |-> "number", n |-> x, s |-> <<>>, k |-> <<>>, a |-> <<>>]
Str(x) == [t |-> "string", n |-> 0, s |-> x, k |-> <<>>, a |-> <<>>]
Arr(x) == [t |-> "array", n |-> 0, s |-> <<>>, k |-> <<>>, a |-> x]
Obj(keys, vals) == [t |-> "object", n |-> 0, s |-> <<>>, k |-> keys, a |-> vals]

\* v.key: the member's value (the last one of that name), undefined otherwise
Get(v, key) ==
  LET hits == {i \in 1..Len(v.k) : v.k[i] = key}
  IN IF v.t # "object" \/ hits = {} THEN Undef
     ELSE v.a[CHOOSE i \in hits : \A j \in hits : i >= j]

\* JavaScript truthiness
Truthy(v) ==
  CASE v.t \in {"undefined", "null"} -> FALSE
    [] v.t = "number" -> v.n # 0
    [] v.t = "string" -> v.s # <<>>
    [] OTHER -> TRUE


(***************************************************************************)
(* JSON.parse and JSON.stringify over lexeme sequences.  The grammar is    *)
(* JSON's: null, numbers (digit runs, no leading zero), strings between    *)
(* double quotes (the lexeme Q) without a raw newline, arrays and objects, *)
(* with insignificant spaces and newlines.                                 *)
(***************************************************************************)
JFail == [ok |-> FALSE, v |-> Undef, nxt |-> 0]
JOk(v, nxt) == [ok |-> TRUE, v |-> v, nxt |-> nxt]
JSkip(s, i) == RunEnd(s, WS, i)

JString(s, i) ==
  LET j == IndexIn(s, {Q}, i + 1)
  IN IF j = 0 \/ Contains(Slice(s, i + 1, j - 1), {NL}) THEN JFail
     ELSE JOk(Str(Slice(s, i + 1, j - 1)), j + 1)

\* one value starting at or after i0; s is a value, not an expression
RECURSIVE JValue(_, _), JElements(_, _, _), JMembers(_, _, _, _)
JValue(s, i0) ==
  Bind(JSkip(s, i0), LAMBDA i :
    IF i > Len(s) THEN JFail
    ELSE IF s[i] = "null" THEN JOk(Null, i + 1)
    ELSE IF s[i] \in Digits
      THEN Bind(IF s[i] = "0" THEN i + 1 ELSE RunEnd(s, Digits, i), LAMBDA e :
             JOk(Num(ParseInt(Slice(s, i, e - 1))), e))
    ELSE IF s[i] = Q THEN JString(s, i)
    ELSE IF s[i] = "["
      THEN Bind(JSkip(s, i + 1), LAMBDA j :
             IF j <= Len(s) /\ s[j] = "]" THEN JOk(Arr(<<>>), j + 1)
             ELSE JElements(s, i + 1, <<>>))
    ELSE IF s[i] = "{"
      THEN Bind(JSkip(s, i + 1), LAMBDA j :
             IF j <= Len(s) /\ s[j] = "}" THEN JOk(Obj(<<>>, <<>>), j + 1)
             ELSE JMembers(s, i + 1, <<>>, <<>>))
    ELSE JFail)

\* the elements after "[" or ",", up to "]"
JElements(s, i, acc) ==
  Bind2(JValue(s, i), acc, LAMBDA r, done :
    Bind(IF r.ok THEN JSkip(s, r.nxt) ELSE Len(s) + 1, LAMBDA j :
      IF j > Len(s) THEN JFail
      ELSE IF s[j] = "," THEN JElements(s, j + 1, Append(done, r.v))
      ELSE IF s[j] = "]" THEN JOk(Arr(Append(done, r.v)), j + 1)
      ELSE JFail))

\* the key of a member at or after i, then its colon and value
JMember(s, i) ==
  Bind(JSkip(s, i), LAMBDA j :
    Bind(IF j <= Len(s) /\ s[j] = Q THEN JString(s, j) ELSE JFail, LAMBDA key :
      Bind(IF key.ok THEN JSkip(s, key.nxt) ELSE Len(s) + 1, LAMBDA c :
        Bind(IF c <= Len(s) /\ s[c] = COLON THEN JValue(s, c + 1) ELSE JFail, LAMBDA r :
          [ok |-> r.ok, key |-> key.v.s, v |-> r.v, nxt |-> r.nxt]))))

\* the members after "{" or ",", up to "}"
JMembers(s, i, ks, vs) ==
  Bind2(JMember(s, i), <<ks, vs>>, LAMBDA m, done :
    Bind(IF m.ok THEN JSkip(s, m.nxt) ELSE Len(s) + 1, LAMBDA e :
      IF e > Len(s) THEN JFail
      ELSE IF s[e] = ","
        THEN JMembers(s, e + 1, Append(done[1], m.key), Append(done[2], m.v))
      ELSE IF s[e] = "}"
        THEN JOk(Obj(Append(done[1], m.key), Append(done[2], m.v)), e + 1)
      ELSE JFail))

\* JSON.parse(text): ok = FALSE stands for the SyntaxError it throws
JSONparse(text) ==
  Bind(text, LAMBDA s :
    Bind(JValue(s, 1), LAMBDA r :
      IF r.ok /\ JSkip(s, r.nxt) = Len(s) + 1 THEN r ELSE JFail))

\* decimal digits of a number below 100
NumLex(x) ==
  LET d(y) == CASE y = 0 -> "0" [] y = 1 -> "1" [] y = 2 -> "2" [] OTHER -> "0"
  IN IF x < 10 THEN <<d(x)>> ELSE <<d(x \div 10), d(x % 10)>>

\* JSON.stringify(v), compact
RECURSIVE Stringify(_), StringifyElems(_), StringifyMembers(_, _)
Stringify(v) ==
  CASE v.t = "number" -> NumLex(v.n)
    [] v.t = "string" -> <<Q>> \o v.s \o <<Q>>
    [] v.t = "array" -> <<"[">> \o StringifyElems(v.a) \o <<"]">>
    [] v.t = "object" -> <<"{">> \o StringifyMembers(v.k, v.a) \o <<"}">>
    [] OTHER -> <<"null">>

StringifyElems(vs) ==
  IF vs = <<>> THEN <<>>
  ELSE Stringify(Head(vs)) \o (IF Len(vs) > 1 THEN <<",">> ELSE <<>>) \o StringifyElems(Tail(vs))

StringifyMembers(ks, vs) ==
  IF ks = <<>> THEN <<>>
  ELSE <<Q>> \o Head(ks) \o <<Q, COLON>> \o Stringify(Head(vs))
       \o (IF Len(ks) > 1 THEN <<",">> ELSE <<>>) \o StringifyMembers(Tail(ks), Tail(vs))


(***************************************************************************)
(* Response Parser, strategy 1: the fenced JSON block.                     *)
(***************************************************************************)
Fence == <<BT, BT, BT>>
JsonOpen == <<BT, BT, BT, "json", NL>>
FenceClose == <<NL, BT, BT, BT>>
CodeOpen == <<BT, BT, BT, NL>>

NoMatch == [found |-> FALSE, cap |-> <<>>]

\* The first match of: opener, then as few lexemes as possible, then closer.
\* The match starts at the leftmost opener that has a closer after it.
LazyBlock(s, opener, closer) ==
  LET starts == {i \in 1..Len(s) :
                   At(s, i, opener) /\ IndexOf(s, closer, i + Len(opener)) # 0}
      i0 == CHOOSE i \in starts : \A j \in starts : i <= j
  IN IF starts = {} THEN NoMatch
     ELSE [found |-> TRUE,
           cap |-> Slice(s, i0 + Len(opener), IndexOf(s, closer, i0 + Len(opener)) - 1)]

\* line 529, first alternative: fence, json, newline, lazy capture, newline, fence
MatchJsonFence(content) == LazyBlock(content, JsonOpen, FenceClose)

\* line 529, second alternative: fence, lazy capture, fence
MatchAnyFence(content) == LazyBlock(content, Fence, Fence)

\* jsonMatch with the two alternatives of line 529 in the other order
JsonMatchAnyFirst(content) ==
  IF MatchAnyFence(content).found THEN MatchAnyFence(content) ELSE MatchJsonFence(content)

\* jsonMatch: the labelled match when there is one (even with an empty capture),
\* the first fenced block of any kind otherwise
JsonMatch(content) ==
  IF MatchJsonFence(content).found THEN MatchJsonFence(content) ELSE MatchAnyFence(content)

KIssues == <<"issues">>
KSummary == <<"summary">>
KSeverity == <<"severity">>
KLine == <<"line">>
KMessage == <<"message">>
KSuggestion == <<"suggestion">>
KCode == <<"code">>
KFile == <<"file">>

\* The inner try block: accepted iff the capture is non-empty, parses, the parsed
\* value is not null (reading .issues of null throws inside the inner try) and
\* its issues member is truthy and an array.
\* the fenced block's summary dropped
FencedJsonNoSummary(content) ==
  Bind(JsonMatch(content), LAMBDA m :
    Bind(IF m.found /\ m.cap # <<>> THEN JSONparse(m.cap) ELSE JFail, LAMBDA r :
      LET iss == Get(r.v, KIssues)
      IN IF r.ok /\ r.v.t # "null" /\ Truthy(iss) /\ iss.t = "array"
           THEN [accepted |-> TRUE, issues |-> iss.a, summary |-> Str(<<>>)]
           ELSE [accepted |-> FALSE, issues |-> <<>>, summary |-> Str(<<>>)]))

FencedJson(content) ==
  Bind(JsonMatch(content), LAMBDA m :
    Bind(IF m.found /\ m.cap # <<>> THEN JSONparse(m.cap) ELSE JFail, LAMBDA r :
      LET iss == Get(r.v, KIssues)
          sum == Get(r.v, KSummary)
      IN IF r.ok /\ r.v.t # "null" /\ Truthy(iss) /\ iss.t = "array"
           THEN [accepted |-> TRUE, issues |-> iss.a,
                 summary |-> IF Truthy(sum) THEN sum ELSE Str(<<>>)]
           ELSE [accepted |-> FALSE, issues |-> <<>>, summary |-> Str(<<>>)]))

(***************************************************************************)
(* Strategy 2: sections split on level-3 headers, problems on level-4.     *)
(***************************************************************************)
H3 == <<HASH, HASH, HASH>>
H4 == <<HASH, HASH, HASH, HASH>>

\* leftmost match of /###\s+/ at or after from: its start, 0 if none
H3At(s, from) ==
  LET hits == {i \in from..Len(s) : At(s, i, H3) /\ i + 3 <= Len(s) /\ s[i + 3] \in WS}
  IN IF hits = {} THEN 0 ELSE CHOOSE i \in hits : \A j \in hits : i <= j

\* content.split(/###\s+/)
RECURSIVE SplitSections(_)
SplitSections(text) ==
  Bind(text, LAMBDA s :
    Bind(H3At(s, 1), LAMBDA i :
      IF i = 0 THEN <<s>>
      ELSE <<Slice(s, 1, i - 1)>> \o SplitSections(Slice(s, RunEnd(s, WS, i + 3), Len(s)))))

\* .filter(Boolean)
ProblemSections(content) == SelectSeq(SplitSections(content), LAMBDA x : x # <<>>)

\* lexemes in which /.../i of line 565, 571, 574 finds its alternatives
ErrorMarks == {"RED", "CRITICAL_ZH", "error", "ERROR"}
WarningMarks == {"ORANGE", "WARN_ZH", "warning"}
AnyMarks == ErrorMarks \cup WarningMarks \cup {"BLUE", "ADVICE_ZH", "SUGGEST_ZH", "info"}

SectionSeverity(section) ==
  IF Contains(section, ErrorMarks) THEN "error"
  ELSE IF Contains(section, WarningMarks) THEN "warning"
  ELSE "info"

\* /####\s+(.+?):(.+?)(?=####|$)/s tried at position p: the colon that ends
\* group 1 (0: no match at p).  \s+ is greedy and gives back one space only when
\* the lexeme after the spaces is itself the only usable colon.
ProblemColon(s, p) ==
  LET w == RunEnd(s, WS, p + 4) - (p + 4)
      c1 == IndexIn(s, {COLON}, p + 5 + w)
  IN IF ~(At(s, p, H4) /\ w >= 1) THEN 0
     ELSE IF c1 # 0 /\ c1 < Len(s) THEN c1
     ELSE IF w >= 2 /\ p + 4 + w < Len(s) /\ s[p + 4 + w] = COLON THEN p + 4 + w
     ELSE 0

\* end of that match: group 2 is lazy and stops before the next #### or at the end
ProblemEnd(s, p) ==
  LET h == IndexOf(s, H4, ProblemColon(s, p) + 2)
  IN IF h # 0 THEN h - 1 ELSE Len(s)

\* section.match(/.../gs): the matched texts, left to right, non-overlapping
ProblemAt(s, from) ==
  LET hits == {p \in from..Len(s) : ProblemColon(s, p) # 0}
  IN IF hits = {} THEN 0 ELSE CHOOSE p \in hits : \A q \in hits : p <= q

RECURSIVE ProblemMatches(_, _)
ProblemMatches(s, from) ==
  Bind(ProblemAt(s, from), LAMBDA p :
    IF p = 0 THEN <<>>
    ELSE Bind(ProblemEnd(s, p), LAMBDA e :
           <<Slice(s, p, e)>> \o ProblemMatches(s, e + 1)))

\* the position after "#### <spaces>" when s has that at p, 0 otherwise
AfterH4(s, p) ==
  IF At(s, p, H4) /\ p + 4 <= Len(s) /\ s[p + 4] \in WS THEN RunEnd(s, WS, p + 4) ELSE 0

\* position of the colon of "DI digits HANG :" starting at a, 0 if it is not there
LineLabelColon(s, a) ==
  LET e == RunEnd(s, Digits, a + 1)
  IN IF a >= 1 /\ a <= Len(s) /\ s[a] = "DI" /\ e > a + 1
        /\ At(s, e, <<"HANG", COLON>>) THEN e + 1 ELSE 0

\* line 584: H4, spaces, DI, digits, HANG, colon: the line number, or undefined
ProblemLine(pm) ==
  LET hits == {p \in 1..Len(pm) : AfterH4(pm, p) # 0 /\ LineLabelColon(pm, AfterH4(pm, p)) # 0}
      p0 == CHOOSE p \in hits : \A q \in hits : p <= q
      a == AfterH4(pm, p0)
  IN IF hits = {} THEN Undef
     ELSE Num(ParseInt(Slice(pm, a + 1, RunEnd(pm, Digits, a + 1) - 1)))

\* line 588: colon of the header label (DI digits HANG, or WHOLE_ZH) at p, 0 if none
HeaderColon(s, p) ==
  LET a == AfterH4(s, p)
  IN IF a = 0 THEN 0
     ELSE IF LineLabelColon(s, a) # 0 THEN LineLabelColon(s, a)
     ELSE IF At(s, a, <<"WHOLE_ZH", COLON>>) THEN a + 1
     ELSE 0

\* start of the capture of \s*(.+)(?:\n|$) after the colon c, 0 if it cannot
\* match: the first non-space lexeme, else (only spaces follow) the last blank
TextStart(s, c) ==
  LET q == RunEnd(s, WS, c + 1)
      blanks == {r \in (c + 1)..Len(s) : s[r] = SP}
  IN IF q <= Len(s) THEN q
     ELSE IF blanks # {} THEN CHOOSE r \in blanks : \A x \in blanks : r >= x
     ELSE 0

\* end of a greedy run of non-newline lexemes started at a
LineEnd(s, a) == RunEnd(s, {s[i] : i \in 1..Len(s)} \ {NL}, a) - 1

\* line 588: the header label, its colon, spaces, then the rest of the line: the message
ProblemMessage(pm) ==
  LET hits == {p \in 1..Len(pm) : HeaderColon(pm, p) # 0 /\ TextStart(pm, HeaderColon(pm, p)) # 0}
      p0 == CHOOSE p \in hits : \A q \in hits : p <= q
      a == TextStart(pm, HeaderColon(pm, p0))
  IN IF hits = {} THEN Str(<<"UNKNOWN_PROBLEM_ZH">>)
     ELSE Str(Trim(Slice(pm, a, LineEnd(pm, a))))

SuggestionLabel == <<STAR, STAR, "BULB", SP, "SUGGEST_ZH", COLON, STAR, STAR, NL>>

\* line 592: the suggestion label and a newline, then lazily up to the next ** or the end
ProblemSuggestion(pm) ==
  LET i == IndexOf(pm, SuggestionLabel, 1)
      j == IndexOf(pm, <<STAR, STAR>>, i + Len(SuggestionLabel))
  IN IF i = 0 THEN Undef
     ELSE Str(Trim(Slice(pm, i + Len(SuggestionLabel), IF j # 0 THEN j - 1 ELSE Len(pm))))

\* line 596: fence, newline, lazy capture, newline, fence
ProblemCode(pm) ==
  LET m == LazyBlock(pm, CodeOpen, FenceClose)
  IN IF m.found THEN Str(m.cap) ELSE Undef

SectionIssue(pm, severity) ==
  Obj(<<KLine, KSeverity, KMessage, KSuggestion, KCode>>,
      <<ProblemLine(pm), Str(<<severity>>), ProblemMessage(pm),
        ProblemSuggestion(pm), ProblemCode(pm)>>)

\* the issues of one section: none when it holds no severity marker (line 565)
IssuesOfSection(section) ==
  IF ~Contains(section, AnyMarks) THEN <<>>
  ELSE Bind2(ProblemMatches(section, 1), SectionSeverity(section), LAMBDA pms, severity :
         [n \in 1..Len(pms) |-> SectionIssue(pms[n], severity)])

\* the for loop over problemSections (lines 563-608)
SectionIssues(sections) ==
  Bind(sections, LAMBDA secs : Concat([n \in 1..Len(secs) |-> IssuesOfSection(secs[n])]))


(***************************************************************************)
(* Strategy 3: the loose line-based scan (lines 611-631), one match of     *)
(*   (\d+)? \s* colon \s* (?: [ severity ] \s* )? ([^\n]+)                 *)
(* after the other.                                                        *)
(***************************************************************************)
SeverityWords == {"error", "warning", "info"}

LooseNone == [found |-> FALSE, line |-> Undef, severity |-> "info", from |-> 0, to |-> 0]

\* the regular expression tried at position p
LooseAt(s, p) ==
  LET d == RunEnd(s, Digits, p)
      c == RunEnd(s, WS, d)
      q == RunEnd(s, WS, c + 1)
      bracket == q + 2 <= Len(s) /\ s[q] = "[" /\ s[q + 1] \in SeverityWords /\ s[q + 2] = "]"
      t == RunEnd(s, WS, q + 3)
      blanksB == {r \in (q + 3)..Len(s) : s[r] = SP}
      blanksC == {r \in (c + 1)..Len(s) : s[r] = SP}
      line == IF d > p THEN Num(ParseInt(Slice(s, p, d - 1))) ELSE Undef
      hit(sev, a) == [found |-> TRUE, line |-> line, severity |-> sev,
                      from |-> a, to |-> LineEnd(s, a)]
  IN IF ~(c <= Len(s) /\ s[c] \in Colons) THEN LooseNone
     ELSE IF bracket /\ t <= Len(s) THEN hit(s[q + 1], t)
     ELSE IF bracket /\ blanksB # {}
       THEN hit(s[q + 1], CHOOSE r \in blanksB : \A x \in blanksB : r >= x)
     ELSE IF q <= Len(s) THEN hit("info", q)
     ELSE IF blanksC # {}
       THEN hit("info", CHOOSE r \in blanksC : \A x \in blanksC : r >= x)
     ELSE LooseNone

LooseIssue(s, m) ==
  Obj(<<KLine, KSeverity, KMessage>>,
      <<m.line, Str(<<m.severity>>), Str(Trim(Slice(s, m.from, m.to)))>>)

\* the while loop over problemRegex.exec(content)
LooseNext(s, from) ==
  LET hits == {p \in from..Len(s) : LooseAt(s, p).found}
  IN IF hits = {} THEN LooseNone
     ELSE LooseAt(s, CHOOSE p \in hits : \A q \in hits : p <= q)

RECURSIVE LooseIssues(_, _)
LooseIssues(s, from) ==
  Bind(LooseNext(s, from), LAMBDA m :
    IF ~m.found THEN <<>>
    ELSE <<LooseIssue(s, m)>> \o LooseIssues(s, m.to + 1))

(***************************************************************************)
(* extractSummary (lines 669-691)                                          *)
(***************************************************************************)
ParagraphLimit == 200

\* line 671: ## \s* MEMO \s* OVERALL_ZH \s* newline ([^#]+) tried at p: the
\* start of the capture, 0 if no match.  The newline is the last one of the
\* space run that is followed by a lexeme other than #.
OverallAt(s, p) ==
  LET a == RunEnd(s, WS, p + 2)
      b == RunEnd(s, WS, a + 1)
      r == RunEnd(s, WS, b + 1)
      nls == {n \in (b + 1)..(r - 1) : s[n] = NL /\ n + 1 <= Len(s) /\ s[n + 1] # HASH}
  IN IF At(s, p, <<HASH, HASH>>) /\ a <= Len(s) /\ s[a] = "MEMO"
        /\ b <= Len(s) /\ s[b] = "OVERALL_ZH" /\ nls # {}
       THEN (CHOOSE n \in nls : \A x \in nls : n >= x) + 1
       ELSE 0

SummaryLabels == {"SUM_ZH", "OVERALL_ZH", "ASSESS_ZH", "OVERVIEW_ZH", "Summary", "summary"}

\* line 677: label, colon, \s*, ([^\n]+), then a blank line or the end, tried at
\* p: the start of the capture, 0 if no match
LabelledAt(s, p) ==
  LET q == RunEnd(s, WS, p + 2)
      ok(a) == /\ a <= Len(s)
               /\ s[a] # NL
               /\ (LineEnd(s, a) = Len(s) \/ At(s, LineEnd(s, a) + 1, <<NL, NL>>))
      starts == {a \in (p + 2)..q : ok(a)}
  IN IF p + 1 <= Len(s) /\ s[p] \in SummaryLabels /\ s[p + 1] \in Colons /\ starts # {}
       THEN CHOOSE a \in starts : \A x \in starts : a >= x
       ELSE 0

\* content.split('\n\n')
RECURSIVE SplitParagraphs(_)
SplitParagraphs(text) ==
  Bind(text, LAMBDA s :
    Bind(IndexOf(s, <<NL, NL>>, 1), LAMBDA i :
      IF i = 0 THEN <<s>>
      ELSE <<Slice(s, 1, i - 1)>> \o SplitParagraphs(Slice(s, i + 2, Len(s)))))

\* the rules with the labelled line tried before the header section
extractSummaryLabelFirst(content) ==
  LET overall == {p \in 1..Len(content) : OverallAt(content, p) # 0}
      o == OverallAt(content, CHOOSE p \in overall : \A x \in overall : p <= x)
      labelled == {p \in 1..Len(content) : LabelledAt(content, p) # 0}
      l == LabelledAt(content, CHOOSE p \in labelled : \A x \in labelled : p <= x)
      paragraphs == SplitParagraphs(content)
  IN IF labelled # {} THEN Trim(Slice(content, l, LineEnd(content, l)))
     ELSE IF overall # {}
       THEN Trim(Slice(content, o, RunEnd(content, {content[i] : i \in 1..Len(content)} \ {HASH}, o) - 1))
     ELSE IF paragraphs[1] # <<>> /\ StrLength(paragraphs[1]) < ParagraphLimit
       THEN Trim(paragraphs[1])
     ELSE Trim(paragraphs[Len(paragraphs)])

\* lines 669-691: the header section, else the labelled line, else the first
\* paragraph when it is not empty and short, else the last paragraph
extractSummary(content) ==
  LET overall == {p \in 1..Len(content) : OverallAt(content, p) # 0}
      o == OverallAt(content, CHOOSE p \in overall : \A x \in overall : p <= x)
      labelled == {p \in 1..Len(content) : LabelledAt(content, p) # 0}
      l == LabelledAt(content, CHOOSE p \in labelled : \A x \in labelled : p <= x)
      paragraphs == SplitParagraphs(content)
  IN IF overall # {}
       THEN Trim(Slice(content, o, RunEnd(content, {content[i] : i \in 1..Len(content)} \ {HASH}, o) - 1))
     ELSE IF labelled # {} THEN Trim(Slice(content, l, LineEnd(content, l)))
     ELSE IF paragraphs[1] # <<>> /\ StrLength(paragraphs[1]) < ParagraphLimit
       THEN Trim(paragraphs[1])
     ELSE Trim(paragraphs[Len(paragraphs)])

(***************************************************************************)
(* parseReviewResponse (lines 526-664)                                     *)
(***************************************************************************)
MakeResult(file, issues, summary) == [file |-> file, issues |-> issues, summary |-> summary]

\* the degenerate issue carrying the text as it came, not trimmed
DegenerateUntrimmed(content) ==
  Obj(<<KSeverity, KMessage, KSuggestion>>,
      <<Str(<<"info">>), Str(<<"REVIEW_FEEDBACK_ZH">>), Str(content)>>)

DegenerateIssue(content) ==
  Obj(<<KSeverity, KMessage, KSuggestion>>,
      <<Str(<<"info">>), Str(<<"REVIEW_FEEDBACK_ZH">>), Str(Trim(content))>>)

\* lines 548-646: the text strategies; via names the one that filled issues
TextIssues(content) ==
  Bind(SectionIssues(ProblemSections(content)), LAMBDA sectioned :
    IF sectioned # <<>> THEN [via |-> "sections", issues |-> sectioned]
    ELSE Bind(LooseIssues(content, 1), LAMBDA loose :
           IF loose # <<>> THEN [via |-> "lines", issues |-> loose]
           ELSE IF Trim(content) # <<>>
             THEN [via |-> "degenerate", issues |-> <<DegenerateIssue(content)>>]
           ELSE [via |-> "none", issues |-> <<>>]))

ErrorIssue(detail) ==
  Obj(<<KSeverity, KMessage, KSuggestion>>,
      <<Str(<<"error">>), Str(<<"PARSE_ERROR_ZH">>), Str(detail)>>)

\* String(error) of the TypeError raised by content.match when the value the
\* API returned as message.content is not a string
NotAStringError == <<"TypeError", COLON, SP, "content.match is not a function">>

\* The body of the outer try.  content is the JavaScript value handed over by
\* reviewCode: a string, or (the type is not enforced at run time) another
\* truthy value, on which content.match throws.
\* the result's file taken from the fenced block's document when it has one
ParseTryJsonFile(content, filePath) ==
  IF content.t # "string"
    THEN [thrown |-> TRUE, error |-> NotAStringError, via |-> "error",
          result |-> MakeResult(filePath, <<>>, Str(<<>>))]
  ELSE Bind(FencedJson(content.s), LAMBDA json :
         IF json.accepted
           THEN Bind(Get(JSONparse(JsonMatch(content.s).cap).v, KFile), LAMBDA file :
                  [thrown |-> FALSE, error |-> <<>>, via |-> "json",
                   result |-> MakeResult(IF file.t = "string" THEN file.s ELSE filePath,
                                         json.issues, json.summary)])
           ELSE Bind(TextIssues(content.s), LAMBDA text :
                  [thrown |-> FALSE, error |-> <<>>, via |-> text.via,
                   result |-> MakeResult(filePath, text.issues,
                                         Str(extractSummary(content.s)))]))

ParseTry(content, filePath) ==
  IF content.t # "string"
    THEN [thrown |-> TRUE, error |-> NotAStringError, via |-> "error",
          result |-> MakeResult(filePath, <<>>, Str(<<>>))]
  ELSE Bind(FencedJson(content.s), LAMBDA json :
         IF json.accepted
           THEN [thrown |-> FALSE, error |-> <<>>, via |-> "json",
                 result |-> MakeResult(filePath, json.issues, json.summary)]
           ELSE Bind(TextIssues(content.s), LAMBDA text :
                  [thrown |-> FALSE, error |-> <<>>, via |-> text.via,
                   result |-> MakeResult(filePath, text.issues,
                                         Str(extractSummary(content.s)))]))

\* the outer catch (lines 648-663)
ParseCatch(try, filePath) ==
  [thrown |-> FALSE, error |-> try.error, via |-> "error",
   result |-> MakeResult(filePath, <<ErrorIssue(try.error)>>, Str(<<"PARSE_ERROR_ZH">>))]

\* parseReviewResponse without its outer catch
ParseUncaught(content, filePath) == ParseTry(content, filePath)

parseReviewResponse(content, filePath) ==
  Bind(ParseTry(content, filePath), LAMBDA try :
    IF try.thrown THEN ParseCatch(try, filePath) ELSE try)


(***************************************************************************)
(* Response texts.  A response is a concatenation of fragments as a model  *)
(* produces them: fenced blocks around JSON documents, markdown headers,   *)
(* plain lines.  kind is "json" for a block opened by the json label and a *)
(* newline, "fence" for any other fenced block, "text" otherwise; valid    *)
(* and value tell what the block's content is as a JSON document.          *)
(***************************************************************************)
MaxFragments == 2

IssueError == Obj(<<KSeverity, KLine, KMessage>>, <<Str(<<"error">>), Num(12), Str(<<"text">>)>>)
IssueWarning == Obj(<<KSeverity, KMessage>>, <<Str(<<"warning">>), Str(<<"text">>)>>)
IssueCritical == Obj(<<KSeverity, KMessage>>, <<Str(<<"critical">>), Str(<<"text">>)>>)

DocGood == Obj(<<KIssues, KSummary>>, <<Arr(<<IssueError, IssueWarning>>), Str(<<"text">>)>>)
DocFile ==
  Obj(<<KFile, KIssues, KSummary>>,
      <<Str(<<"other", ".", "ts">>), Arr(<<IssueWarning>>), Str(<<"text">>)>>)
DocWarning == Obj(<<KIssues>>, <<Arr(<<IssueWarning>>)>>)
DocCritical == Obj(<<KIssues>>, <<Arr(<<IssueCritical>>)>>)
DocNullIssue == Obj(<<KIssues>>, <<Arr(<<Null>>)>>)
DocNoSeverity == Obj(<<KIssues>>, <<Arr(<<Obj(<<KMessage>>, <<Str(<<"text">>)>>)>>)>>)
DocNoIssues == Obj(<<KIssues>>, <<Arr(<<>>)>>)
DocNotArray == Obj(<<KIssues>>, <<Str(<<"text">>)>>)

JsonBlock(doc) ==
  [kind |-> "json", valid |-> TRUE, value |-> doc,
   text |-> JsonOpen \o Stringify(doc) \o FenceClose]
FenceBlock(valid, doc, inner) ==
  [kind |-> "fence", valid |-> valid, value |-> doc, text |-> Fence \o inner \o Fence]
Plain(text) == [kind |-> "text", valid |-> FALSE, value |-> Undef, text |-> text]

FragmentIds ==
  {"J_GOOD", "J_FILE", "J_CRITICAL", "J_NULLISSUE", "J_NOSEVERITY", "J_BROKEN", "J_NULL", "J_NOTARRAY",
   "F_EMPTY", "F_WARNING", "F_CODE", "F_LABEL",
   "H3_RED", "H4_LINE", "H4_WHOLE", "TEXT", "SPACE", "BREAK", "COLON_LINE",
   "SUMMARY_LINE", "SUMMARY_END", "OVERALL", "LONG", "MARK"}

Fragment(id) ==
  CASE id = "J_GOOD" -> JsonBlock(DocGood)
    [] id = "J_FILE" -> JsonBlock(DocFile)
    [] id = "J_CRITICAL" -> JsonBlock(DocCritical)
    [] id = "J_NULLISSUE" -> JsonBlock(DocNullIssue)
    [] id = "J_NOSEVERITY" -> JsonBlock(DocNoSeverity)
    [] id = "J_BROKEN" ->
         [kind |-> "json", valid |-> FALSE, value |-> Undef,
          text |-> JsonOpen \o <<"{", Q, "issues", Q, COLON, "[">> \o FenceClose]
    [] id = "J_NULL" -> JsonBlock(Null)
    [] id = "J_NOTARRAY" -> JsonBlock(DocNotArray)
    [] id = "F_EMPTY" -> FenceBlock(TRUE, DocNoIssues, Stringify(DocNoIssues))
    [] id = "F_WARNING" -> FenceBlock(TRUE, DocWarning, <<NL>> \o Stringify(DocWarning) \o <<NL>>)
    [] id = "F_CODE" -> FenceBlock(FALSE, Undef, <<"text", NL, "text", NL>>)
    [] id = "F_LABEL" -> FenceBlock(FALSE, Undef, <<"json", SP>> \o Stringify(DocWarning))
    [] id = "H3_RED" -> Plain(<<HASH, HASH, HASH, SP, "RED", SP, "CRITICAL_ZH", NL>>)
    [] id = "H4_LINE" ->
         Plain(<<HASH, HASH, HASH, HASH, SP, "DI", "1", "2", "HANG", COLON, SP,
                 "message", SP, "text", NL>>)
    [] id = "H4_WHOLE" ->
         Plain(<<HASH, HASH, HASH, HASH, SP, "WHOLE_ZH", COLON, SP, "text", NL>> \o SuggestionLabel
               \o <<"text", NL>>)
    [] id = "TEXT" -> Plain(<<"text", SP, "text">>)
    [] id = "SPACE" -> Plain(<<SP, NL>>)
    [] id = "BREAK" -> Plain(<<NL, NL>>)
    [] id = "COLON_LINE" -> Plain(<<"2", COLON, SP, "[", "warning", "]", SP, "text", NL>>)
    [] id = "SUMMARY_LINE" -> Plain(<<"Summary", FWCOLON, SP, "text", NL>>)
    [] id = "SUMMARY_END" -> Plain(<<"Summary", COLON, SP, "message", SP>>)
    [] id = "OVERALL" -> Plain(<<HASH, HASH, SP, "MEMO", SP, "OVERALL_ZH", NL, NL, "text", NL>>)
    [] id = "LONG" -> Plain(<<"LONG">>)
    [] OTHER -> Plain(<<"error">>)

FragmentLists == UNION {[1..n -> FragmentIds] : n \in 0..MaxFragments}

RECURSIVE TextOf(_)
TextOf(ids) == IF ids = <<>> THEN <<>> ELSE Fragment(Head(ids)).text \o TextOf(Tail(ids))

\* a value that is truthy and not a string: message.content as content parts
ContentParts == Arr(<<Str(<<"text">>)>>)

FilePaths == {<<"src", "/", "a", ".", "ts">>, <<"b", ".", "min", ".", "js">>}

(***************************************************************************)
(* Diff filter (core/reviewer.ts, filterDiffs and matchPatterns).  Paths   *)
(* and patterns are sequences of characters.                               *)
(***************************************************************************)
DOT == "."
PLUS == "+"
SLASH == "/"
BACKSLASH == "\\"
CARET == "^"
DOLLAR == "$"

\* s.replace(/c/g, r): every occurrence of the character c replaced by r
ReplaceAll(s, c, r) == Concat([i \in 1..Len(s) |-> IF s[i] = c THEN r ELSE <<s[i]>>])

\* String.prototype.startsWith
StartsWith(s, prefix) ==
  /\ Len(prefix) <= Len(s)
  /\ \A i \in 1..Len(prefix) : s[i] = prefix[i]

\* A compiled regular expression is a sequence of items: an atom (a literal
\* character, or any character for an unescaped dot) with its quantifier, or
\* an assertion (start, end of input).
RegExpError == [ok |-> FALSE, items |-> <<>>]
Atom(kind, c) == [kind |-> kind, c |-> c, q |-> "one"]

\* the last item can take a quantifier: it is an atom that has none yet
Quantifiable(items) ==
  /\ items # <<>>
  /\ items[Len(items)].kind \in {"lit", "any"}
  /\ items[Len(items)].q = "one"

\* The pattern parser of new RegExp(source), for sources made of literal
\* characters, escapes, dots, the quantifiers * and +, and the assertions ^
\* and $.  ok = FALSE stands for the SyntaxError (nothing to repeat, or a
\* trailing backslash).
RECURSIVE RegExpParse(_, _, _)
RegExpParse(src, from, sofar) ==
  Bind2(from, sofar, LAMBDA i, items :
    IF i > Len(src) THEN [ok |-> TRUE, items |-> items]
    ELSE IF src[i] = BACKSLASH
      THEN IF i = Len(src) THEN RegExpError
           ELSE RegExpParse(src, i + 2, Append(items, Atom("lit", src[i + 1])))
    ELSE IF src[i] \in {STAR, PLUS}
      THEN IF ~Quantifiable(items) THEN RegExpError
           ELSE RegExpParse(src, i + 1,
                  [items EXCEPT ![Len(items)].q = IF src[i] = STAR THEN "star" ELSE "plus"])
    ELSE IF src[i] = DOT THEN RegExpParse(src, i + 1, Append(items, Atom("any", DOT)))
    ELSE IF src[i] = CARET THEN RegExpParse(src, i + 1, Append(items, Atom("bol", CARET)))
    ELSE IF src[i] = DOLLAR THEN RegExpParse(src, i + 1, Append(items, Atom("eol", DOLLAR)))
    ELSE RegExpParse(src, i + 1, Append(items, Atom("lit", src[i]))))

RegExpNew(source) == Bind(source, LAMBDA src : RegExpParse(src, 1, <<>>))

\* an atom takes the character ch (a dot takes any character of a path: the
\* line terminators it refuses are not path characters)
Fits(item, ch) == item.kind = "any" \/ (item.kind = "lit" /\ item.c = ch)

\* the positions of str a match can be at after the item, from those of S
RegExpStep(S, item, str) ==
  CASE item.kind = "bol" -> S \cap {1}
    [] item.kind = "eol" -> S \cap {Len(str) + 1}
    [] item.q = "one" -> {j + 1 : j \in {k \in S : k <= Len(str) /\ Fits(item, str[k])}}
    [] OTHER ->
         {e \in 1..(Len(str) + 1) :
            \E j \in S : /\ j + (IF item.q = "plus" THEN 1 ELSE 0) <= e
                         /\ \A k \in j..(e - 1) : Fits(item, str[k])}

RECURSIVE RegExpRun(_, _, _)
RegExpRun(items, n, str) ==
  IF n = 0 THEN 1..(Len(str) + 1)
  ELSE Bind(RegExpRun(items, n - 1, str), LAMBDA S : RegExpStep(S, items[n], str))

\* RegExp.prototype.test: some match exists, starting anywhere
RegExpTest(re, str) == RegExpRun(re.items, Len(re.items), str) # {}

\* The callback of patterns.some (lines 209-221) on one pattern: "true",
\* "false", or "throw" when new RegExp raises a SyntaxError.
PatternTest(filePath, pattern) ==
  IF Contains(pattern, {STAR})
    THEN LET regexPattern ==
               ReplaceAll(ReplaceAll(pattern, DOT, <<BACKSLASH, DOT>>), STAR, <<DOT, STAR>>)
         IN Bind(RegExpNew(<<CARET>> \o regexPattern \o <<DOLLAR>>), LAMBDA re :
              IF ~re.ok THEN "throw"
              ELSE IF RegExpTest(re, filePath) THEN "true" ELSE "false")
    ELSE IF filePath = pattern THEN "true" ELSE "false"

\* patterns.some(...): the answer of the first pattern that matches or throws
matchPatterns(filePath, patterns) ==
  Bind([n \in 1..Len(patterns) |-> PatternTest(filePath, patterns[n])], LAMBDA tests :
    LET hits == {n \in 1..Len(tests) : tests[n] # "false"}
    IN IF hits = {} THEN "false" ELSE tests[CHOOSE n \in hits : \A m \in hits : n <= m])

\* an optional list of the review configuration
Unset == [set |-> FALSE, list |-> <<>>]
List(l) == [set |-> TRUE, list |-> l]

\* the filter callback with the ignoreFiles test skipped when an include
\* pattern matches
FilterDiffIncludeFirst(diff, review) ==
  LET filePath == diff.newPath
      included == review.includePatterns.set /\ review.includePatterns.list # <<>>
                  /\ matchPatterns(filePath, review.includePatterns.list) = "true"
  IN IF ~included /\ review.ignoreFiles.set
          /\ matchPatterns(filePath, review.ignoreFiles.list) # "false"
       THEN "drop"
     ELSE IF review.ignorePaths.set
          /\ \E n \in 1..Len(review.ignorePaths.list) :
               StartsWith(filePath, review.ignorePaths.list[n])
       THEN "drop"
     ELSE IF review.includePatterns.set /\ review.includePatterns.list # <<>>
          /\ matchPatterns(filePath, review.includePatterns.list) # "true"
       THEN "drop"
     ELSE IF review.excludePatterns.set
          /\ matchPatterns(filePath, review.excludePatterns.list) # "false"
       THEN "drop"
     ELSE "keep"

\* what a call of matchPatterns used as a condition does to the callback:
\* "throw" leaves it by the exception
Verdict(test, whenTrue, whenFalse) ==
  CASE test = "throw" -> "throw"
    [] test = "true" -> whenTrue
    [] OTHER -> whenFalse

\* The callback of diffs.filter (lines 171-201) on one diff: "keep" for true,
\* "drop" for false, "throw" when a pattern fails to compile.  "next" stands
\* for falling through to the next test.
FilterDiff(diff, review) ==
  LET filePath == diff.newPath
      byFiles == IF review.ignoreFiles.set
                   THEN Verdict(matchPatterns(filePath, review.ignoreFiles.list), "drop", "next")
                   ELSE "next"
      byPaths == IF review.ignorePaths.set
                    /\ \E n \in 1..Len(review.ignorePaths.list) :
                         StartsWith(filePath, review.ignorePaths.list[n])
                   THEN "drop" ELSE "next"
      byInclude == IF review.includePatterns.set /\ Len(review.includePatterns.list) > 0
                     THEN Verdict(matchPatterns(filePath, review.includePatterns.list),
                                  "next", "drop")
                     ELSE "next"
      byExclude == IF review.excludePatterns.set
                     THEN Verdict(matchPatterns(filePath, review.excludePatterns.list),
                                  "drop", "next")
                     ELSE "next"
  IN Bind(byFiles, LAMBDA v1 :
       IF v1 # "next" THEN v1
       ELSE IF byPaths # "next" THEN "drop"
       ELSE Bind(byInclude, LAMBDA v3 :
              IF v3 # "next" THEN v3
              ELSE Bind(byExclude, LAMBDA v4 : IF v4 # "next" THEN v4 ELSE "keep")))

\* the elements of seq at the positions of set idxs, in order
Pick(seq, idxs) ==
  [k \in 1..Cardinality(idxs) |->
     seq[CHOOSE n \in idxs : Cardinality({m \in idxs : m <= n}) = k]]

\* filterDiffs (lines 168-203): the kept diffs in their order, or thrown when
\* the callback throws on some diff
filterDiffs(diffs, review) ==
  Bind([n \in 1..Len(diffs) |-> FilterDiff(diffs[n], review)], LAMBDA verdicts :
    IF \E n \in 1..Len(verdicts) : verdicts[n] = "throw"
      THEN [thrown |-> TRUE, diffs |-> <<>>]
      ELSE [thrown |-> FALSE,
            diffs |-> Pick(diffs, {n \in 1..Len(verdicts) : verdicts[n] = "keep"})])

(***************************************************************************)
(* Paths, patterns and configurations                                      *)
(***************************************************************************)
MaxPatternLen == 3
MaxPathLen == 3
MaxDiffs == 2

PatternChars == {"a", DOT, STAR, PLUS}
PathChars == {"a", DOT, PLUS, SLASH}
AllPatterns == UNION {[1..n -> PatternChars] : n \in 1..MaxPatternLen}
AllPaths == UNION {[1..n -> PathChars] : n \in 1..MaxPathLen}

Diff(path) == [newPath |-> path]

StarDotA == <<STAR, DOT, "a">>
ExactA == <<"a">>
APlusStar == <<"a", PLUS, STAR>>
StarPlus == <<STAR, PLUS>>
DirStar == <<"a", SLASH, STAR>>

DiffPaths == {<<"a">>, <<"a", DOT, "a">>, <<"a", SLASH, "a">>, <<"a", "a">>}
DiffLists == UNION {[1..n -> {Diff(p) : p \in DiffPaths}] : n \in 0..MaxDiffs}

PatternLists ==
  {Unset, List(<<>>), List(<<StarDotA>>), List(<<ExactA>>), List(<<APlusStar>>),
   List(<<DirStar>>), List(<<ExactA, StarPlus>>)}
PrefixLists == {Unset, List(<<>>), List(<<<<"a", SLASH>>>>)}

Review(ignoreFiles, ignorePaths, includePatterns, excludePatterns) ==
  [ignoreFiles |-> ignoreFiles, ignorePaths |-> ignorePaths,
   includePatterns |-> includePatterns, excludePatterns |-> excludePatterns]

\* configurations with lists in several fields
MixedConfigs ==
  {Review(f, p, i, e) : f \in PatternLists, p \in PrefixLists,
                        i \in PatternLists, e \in PatternLists}

\* configurations with one pattern in one field
SingleConfigs ==
  {Review(List(<<q>>), Unset, Unset, Unset) : q \in AllPatterns}
  \cup {Review(Unset, Unset, Unset, List(<<q>>)) : q \in AllPatterns}
  \cup {Review(Unset, Unset, List(<<q>>), Unset) : q \in AllPatterns}

NoConfig == Review(Unset, Unset, Unset, Unset)

(***************************************************************************)
(* Review run (core/reviewer.ts, review) and its collaborators             *)
(***************************************************************************)
\* reading a property of the value throws a TypeError
ReadThrows(v) == v.t \in {"null", "undefined"}

\* issues.filter(issue => issue.severity === severity).length
CountSeverity(issues, severity) ==
  Cardinality({n \in 1..Len(issues) : Get(issues[n], KSeverity) = Str(<<severity>>)})

\* formatSingleFileReview (formatter.ts lines 193-271): the counts of the
\* overview, or thrown when the severity of a null issue is read
formatSingleFileReview(result) ==
  IF \E n \in 1..Len(result.issues) : ReadThrows(result.issues[n])
    THEN [thrown |-> TRUE, file |-> result.file, errors |-> 0, warnings |-> 0,
          infos |-> 0, total |-> 0]
    ELSE [thrown |-> FALSE, file |-> result.file,
          errors |-> CountSeverity(result.issues, "error"),
          warnings |-> CountSeverity(result.issues, "warning"),
          infos |-> CountSeverity(result.issues, "info"),
          total |-> Len(result.issues)]

\* buildSummaryPrompt (default.ts lines 453-521) throws a TypeError when an
\* issue is null (line 460) or has no string severity to upper-case (line 479)
SummaryPromptThrows(results) ==
  \E r \in 1..Len(results) : \E n \in 1..Len(results[r].issues) :
    \/ ReadThrows(results[r].issues[n])
    \/ Get(results[r].issues[n], KSeverity).t # "string"

\* JavaScript numbers of the percentage computation: NaN, an infinity, or the
\* exact quotient num/den of two naturals
NaN == [k |-> "NaN", num |-> 0, den |-> 1]
Infinity == [k |-> "Infinity", num |-> 0, den |-> 1]
Finite(num, den) == [k |-> "finite", num |-> num, den |-> den]

\* a / b for counts a and b
Divide(a, b) ==
  IF b = 0 THEN (IF a = 0 THEN NaN ELSE Infinity) ELSE Finite(a, b)

\* x * c for a positive integer c
Times(x, c) == IF x.k = "finite" THEN Finite(x.num * c, x.den) ELSE x

\* x || 0: NaN and 0 are falsy
OrZero(x) == IF x.k = "NaN" \/ (x.k = "finite" /\ x.num = 0) THEN Finite(0, 1) ELSE x

\* Math.round(x): the integer nearest to x, a half going up; NaN and the
\* infinities stay
MathRound(x) ==
  IF x.k = "finite" THEN Finite((2 * x.num + x.den) \div (2 * x.den), 1) ELSE x

\* the percentage without its || 0
PercentNoDefault(count, issuesCount) == MathRound(Times(Divide(count, issuesCount), 100))

\* Math.round(count / issuesCount * 100 || 0) (default.ts lines 490-492)
Percent(count, issuesCount) ==
  MathRound(OrZero(Times(Divide(count, issuesCount), 100)))

\* results.flatMap(r => r.issues)
RECURSIVE AllIssues(_)
AllIssues(results) ==
  IF results = <<>> THEN <<>> ELSE Head(results).issues \o AllIssues(Tail(results))

NoPrompt ==
  [built |-> FALSE, thrown |-> FALSE, filesCount |-> 0, issuesCount |-> 0,
   errorCount |-> 0, warningCount |-> 0, infoCount |-> 0,
   errorPercent |-> NaN, warningPercent |-> NaN, infoPercent |-> NaN]

\* buildSummaryPrompt (default.ts lines 453-521): the numbers the prompt
\* renders, or thrown
buildSummaryPrompt(results) ==
  IF SummaryPromptThrows(results)
    THEN [NoPrompt EXCEPT !.thrown = TRUE]
    ELSE \* the choice binds the flattened issues once
         LET allIssues == CHOOSE x \in {AllIssues(results)} : TRUE
             issuesCount == Len(allIssues)
             errorCount == CountSeverity(allIssues, "error")
             warningCount == CountSeverity(allIssues, "warning")
             infoCount == CountSeverity(allIssues, "info")
         IN [built |-> TRUE, thrown |-> FALSE, filesCount |-> Len(results),
             issuesCount |-> issuesCount,
             errorCount |-> errorCount, warningCount |-> warningCount,
             infoCount |-> infoCount,
             errorPercent |-> Percent(errorCount, issuesCount),
             warningPercent |-> Percent(warningCount, issuesCount),
             infoPercent |-> Percent(infoCount, issuesCount)]

\* formatReviewResults (formatter.ts lines 11-27): the numbers of the overall
\* statistics, or thrown when the severity of a null issue is read
formatReviewResults(results) ==
  LET allIssues == CHOOSE x \in {AllIssues(results)} : TRUE
  IN IF \E n \in 1..Len(allIssues) : ReadThrows(allIssues[n])
       THEN [thrown |-> TRUE, totalIssues |-> 0, errorCount |-> 0, warningCount |-> 0,
             infoCount |-> 0]
       ELSE [thrown |-> FALSE, totalIssues |-> Len(allIssues),
             errorCount |-> CountSeverity(allIssues, "error"),
             warningCount |-> CountSeverity(allIssues, "warning"),
             infoCount |-> CountSeverity(allIssues, "info")]

\* reviewCode (default.ts lines 211-313) once the API has answered with
\* content: the parsed response for the diff's path
reviewCode(diff, response) == parseReviewResponse(response, diff.newPath)

\* the (file, issue) pairs of the per-issue loop of sendBatchReviewNotifications
RECURSIVE IssuePairs(_)
IssuePairs(results) ==
  IF results = <<>> THEN <<>>
  ELSE [n \in 1..Len(Head(results).issues) |->
          [file |-> Head(results).file, issue |-> Head(results).issues[n]]]
       \o IssuePairs(Tail(results))

\* how many of the pairs are reached before formatIssueComment throws
Reachable(pairs) ==
  LET bad == {n \in 1..Len(pairs) : ReadThrows(pairs[n].issue)}
  IN IF bad = {} THEN Len(pairs) ELSE (CHOOSE n \in bad : \A m \in bad : n <= m) - 1

Delivery(via, file, line) == [via |-> via, file |-> file, line |-> line]

\* a submission handed to the platform and whether the platform accepted it
Attempt(via, file, line, ok) == [via |-> via, file |-> file, line |-> line, ok |-> ok]

\* what the platform accepted of the attempts
RECURSIVE Deliveries(_)
Deliveries(attempts) ==
  IF attempts = <<>> THEN <<>>
  ELSE (IF Head(attempts).ok
          THEN <<Delivery(Head(attempts).via, Head(attempts).file, Head(attempts).line)>>
          ELSE <<>>)
       \o Deliveries(Tail(attempts))

(***************************************************************************)
(* Configuration loading (config/config.ts).  A configuration holds the    *)
(* sections ai and platform with their scalar settings; a setting a source *)
(* does not give is Absent (the key is missing from the object).           *)
(***************************************************************************)
Absent == "(absent)"

AiConfig(model, apiKey) == [model |-> model, apiKey |-> apiKey]
PlatformConfig(type) == [type |-> type]
Config(ai, platform) == [ai |-> ai, platform |-> platform]

DefaultModel == "deepseek/deepseek-chat-v3-0324:free"

\* defaultConfig (lines 39-76)
defaultConfig == Config(AiConfig(DefaultModel, Absent), PlatformConfig("local"))

\* process.env[name] || fallback: an unset or empty variable gives the fallback
EnvOr(value, fallback) == IF value \in {Absent, ""} THEN fallback ELSE value

\* loadEnvConfig (lines 81-124): the settings the environment gives, after the
\* JSON round trip that drops the undefined ones
loadEnvConfig(env) ==
  Config(AiConfig(EnvOr(env.AI_REVIEWER_MODEL, DefaultModel), env.AI_REVIEWER_OPENAI_KEY),
         PlatformConfig(EnvOr(env.AI_REVIEWER_PLATFORM, Absent)))

\* { ...a, ...b }: the keys b has replace those of a
Spread(a, b) == [key \in DOMAIN a |-> IF b[key] # Absent THEN b[key] ELSE a[key]]

\* one source applied to the merged configuration (lines 184-189, 227-234)
Apply(merged, source) ==
  Config(Spread(merged.ai, source.ai), Spread(merged.platform, source.platform))

\* mergeConfig (lines 174-277): the file first, then the environment, then
\* the CLI
mergeConfig(default, fileConfig, envConfig, cliConfig) ==
  Apply(Apply(Apply(default, fileConfig), envConfig), cliConfig)

\* mergeConfig with the environment's configuration left out
MergeWithoutEnv(default, fileConfig, envConfig, cliConfig) ==
  Apply(Apply(default, fileConfig), cliConfig)

\* loadConfig (lines 282-303)
loadConfig(fileConfig, env, cliConfig) ==
  mergeConfig(defaultConfig, fileConfig, loadEnvConfig(env), cliConfig)

\* the configurations a file or a caller can give
PartialConfigs(model, apiKey) ==
  {Config(AiConfig(m, k), PlatformConfig(t)) :
     m \in {Absent, model}, k \in {Absent, apiKey}, t \in {Absent, "github", "local"}}

Environments ==
  [AI_REVIEWER_MODEL : {Absent, "env-model"},
   AI_REVIEWER_OPENAI_KEY : {Absent, "env-key"},
   AI_REVIEWER_PLATFORM : {Absent, "github", "local"}]

NoSources ==
  [file |-> Config(AiConfig(Absent, Absent), PlatformConfig(Absent)),
   env |-> [AI_REVIEWER_MODEL |-> Absent, AI_REVIEWER_OPENAI_KEY |-> Absent,
            AI_REVIEWER_PLATFORM |-> Absent],
   cli |-> Config(AiConfig(Absent, Absent), PlatformConfig(Absent))]
NotLoaded == [set |-> FALSE, config |-> defaultConfig]

(***************************************************************************)
(* Custom prompt templates (default.ts lines 404-413 and 494-503).  A      *)
(* template and the values put into it are sequences of lexemes; a         *)
(* placeholder is one lexeme.                                              *)
(***************************************************************************)
LANGUAGE == "{{language}}"
FILE_PATH == "{{filePath}}"
DIFF_CONTENT == "{{diffContent}}"
FILES_COUNT == "{{filesCount}}"
ISSUES_COUNT == "{{issuesCount}}"
RESULTS_SUMMARY == "{{resultsSummary}}"
SEVERITY_DISTRIBUTION == "{{severityDistribution}}"
UNKNOWN == "{{author}}"
AMP == "&"
APOS == "'"

\* GetSubstitution of String.prototype.replace for a string pattern: in the
\* replacement $$ is a dollar sign, $& the matched text, $ and a backtick the
\* text before the match, $' the text after it
RECURSIVE GetSubstitution(_, _, _, _)
GetSubstitution(matched, before, after, replacement) ==
  IF replacement = <<>> THEN <<>>
  ELSE IF Len(replacement) >= 2 /\ replacement[1] = DOLLAR
            /\ replacement[2] \in {DOLLAR, AMP, BT, APOS}
    THEN (CASE replacement[2] = DOLLAR -> <<DOLLAR>>
            [] replacement[2] = AMP -> matched
            [] replacement[2] = BT -> before
            [] OTHER -> after)
         \o GetSubstitution(matched, before, after, Tail(Tail(replacement)))
  ELSE <<Head(replacement)>> \o GetSubstitution(matched, before, after, Tail(replacement))

\* text.replace(pattern, replacement) with a string pattern: the first
\* occurrence only
Replace(text, pattern, replacement) ==
  LET i == IndexOf(text, <<pattern>>, 1)
      before == Slice(text, 1, i - 1)
      after == Slice(text, i + 1, Len(text))
  IN IF i = 0 THEN text
     ELSE before \o GetSubstitution(<<pattern>>, before, after, replacement) \o after

\* buildReviewPrompt (lines 404-440): the custom template with its three
\* replacements chained, or the built-in template literal
buildReviewPrompt(customPrompt, language, newPath, diffContent) ==
  IF customPrompt # <<>>
    THEN Replace(Replace(Replace(customPrompt, LANGUAGE, language), FILE_PATH, newPath),
                 DIFF_CONTENT, diffContent)
    ELSE <<"REVIEW_PROMPT_ZH">> \o language \o newPath \o diffContent

\* buildSummaryPrompt (lines 494-521) from the texts it has computed: the
\* custom template with its four replacements chained, or the built-in
\* template literal
buildCustomSummaryPrompt(customPrompt, filesCount, issuesCount, detailedResults, severityDistribution) ==
  IF customPrompt # <<>>
    THEN Replace(Replace(Replace(Replace(customPrompt, FILES_COUNT, filesCount),
                                 ISSUES_COUNT, issuesCount),
                         RESULTS_SUMMARY, detailedResults),
                 SEVERITY_DISTRIBUTION, severityDistribution)
    ELSE <<"SUMMARY_PROMPT_ZH">> \o filesCount \o issuesCount \o severityDistribution
         \o detailedResults

MaxTemplateLen == 3

ReviewTemplates ==
  UNION {[1..n -> {LANGUAGE, FILE_PATH, DIFF_CONTENT, UNKNOWN, "text"}] : n \in 0..MaxTemplateLen}
SummaryTemplates ==
  UNION {[1..n -> {FILES_COUNT, ISSUES_COUNT, RESULTS_SUMMARY, SEVERITY_DISTRIBUTION, "text"}] :
           n \in 0..MaxTemplateLen}

\* detectLanguage answers with a language name; a path and a diff are any text
Languages == {<<"TypeScript">>}
PromptPaths == {<<"a", DOT, "ts">>, <<DIFF_CONTENT>>, <<"a", DOLLAR, AMP>>}
DiffContents ==
  {<<"diff">>, <<LANGUAGE, FILE_PATH>>, <<DOLLAR, DOLLAR>>, <<DOLLAR, AMP>>,
   <<"diff", DOLLAR, APOS>>, <<DOLLAR, BT, "diff">>, <<DOLLAR, "1">>}
DetailedResults == {<<"detail">>, <<SEVERITY_DISTRIBUTION>>, <<DOLLAR, AMP>>}

NoArguments ==
  [kind |-> "none", language |-> <<>>, newPath |-> <<>>, diffContent |-> <<>>,
   filesCount |-> <<>>, issuesCount |-> <<>>, detailedResults |-> <<>>,
   severityDistribution |-> <<>>]
NotBuilt == [built |-> FALSE, text |-> <<>>]

(***************************************************************************)
(* State                                                                   *)
(***************************************************************************)
VARIABLES
  frags,          \* parser: the fragments the response text is made of
  content,        \* parser: the value handed to parseReviewResponse
  filePath,       \* parser: its filePath argument
  pstate,         \* parser: "input", then "returned" or "thrown"
  parsed,         \* parser: what the call produced (thrown, error, result)
  config,         \* config.review: the four optional lists of the filter
  diffs,          \* the diffs of the change set, as getCodeDiffs returns them
  fstate,         \* filter: "input", then "filtered" or "thrown"
  filtered,       \* filter: what filterDiffs produced (thrown, diffs)
  batchCapable,   \* run: the platform has submitBatchReviewComments
  pc,             \* run: where review() is
  filteredDiffs,  \* run: the local filteredDiffs
  results,        \* run: the local results
  rendered,       \* run: the reports formatSingleFileReview returned
  summary,        \* run: the local summary
  summaryInput,   \* run: the argument of the generateSummary call
  saved,          \* run: what the file manager wrote
  delivered,      \* run: what the platform accepted
  calls,          \* run: the calls review() made, in order
  failure,        \* run: the call whose exception review() rethrew
  returned,       \* run: the value review() resolved with
  inflight,       \* run: the filtered diffs whose reviewCode call is pending
  invoked,        \* run: the diffs handed to reviewCode, in order
  prompt,         \* run: what buildSummaryPrompt rendered
  batchInput,     \* run: the argument of sendBatchReviewNotifications
  attempted,      \* run: the platform submissions attempted, with their outcome
  logged,         \* run: the errors logged and not rethrown
  targetFile,     \* single file: the argument of reviewSingleFile
  reviewResult,   \* single file: the local reviewResult
  outcome,        \* single file: the value reviewSingleFile resolved with
  sources,        \* configuration: the config file, the environment, the CLI
  mergedConfig,   \* configuration: what loadConfig resolved with
  customPrompt,   \* prompts: config.review.prompts.review or .summary
  promptArguments, \* prompts: the values the template is filled with
  builtPrompt     \* prompts: the prompt returned

parseVars == <<frags, content, filePath, pstate, parsed>>
filterVars == <<config, diffs, fstate, filtered>>
runVars == <<batchCapable, pc, filteredDiffs, results, rendered, summary, summaryInput,
             saved, delivered, calls, failure, returned, inflight, invoked, prompt,
             batchInput, attempted, logged>>
singleVars == <<targetFile, reviewResult, outcome>>
loadVars == <<sources, mergedConfig>>
promptVars == <<customPrompt, promptArguments, builtPrompt>>

vars == <<frags, content, filePath, pstate, parsed, config, diffs, fstate, filtered,
          batchCapable, pc, filteredDiffs, results, rendered, summary, summaryInput,
          saved, delivered, calls, failure, returned, inflight, invoked, prompt,
          batchInput, attempted, logged, targetFile, reviewResult, outcome,
          sources, mergedConfig, customPrompt, promptArguments, builtPrompt>>

NoParse ==
  [thrown |-> FALSE, error |-> <<>>, via |-> "none",
   result |-> MakeResult(<<>>, <<>>, Str(<<>>))]
NoFilter == [thrown |-> FALSE, diffs |-> <<>>]
NotReturned == [set |-> FALSE, results |-> <<>>]
NoSummary == ""
NoBatch == [set |-> FALSE, results |-> <<>>]
NoOutcome == [set |-> FALSE, result |-> MakeResult(<<>>, <<>>, Str(<<>>)), null |-> TRUE]

\* the parts of the state a specification does not use
ParserUnused ==
  /\ frags = <<>> /\ content = Undef /\ filePath = <<>>
  /\ pstate = "unused" /\ parsed = NoParse
FilterUnused == fstate = "unused" /\ filtered = NoFilter
RunUnused ==
  /\ batchCapable = FALSE /\ pc = "unused" /\ filteredDiffs = <<>> /\ results = <<>>
  /\ rendered = <<>> /\ summary = NoSummary /\ summaryInput = <<>> /\ saved = <<>>
  /\ delivered = <<>> /\ calls = <<>> /\ failure = "none" /\ returned = NotReturned
  /\ inflight = {} /\ invoked = <<>> /\ prompt = NoPrompt /\ batchInput = NoBatch
  /\ attempted = <<>> /\ logged = <<>>
SingleUnused ==
  /\ targetFile = <<>> /\ reviewResult = MakeResult(<<>>, <<>>, Str(<<>>))
  /\ outcome = NoOutcome
LoadUnused == sources = NoSources /\ mergedConfig = NotLoaded
PromptUnused ==
  customPrompt = <<>> /\ promptArguments = NoArguments /\ builtPrompt = NotBuilt

(***************************************************************************)
(* The parser on its own: every response text, parsed once.                *)
(***************************************************************************)
ParseInit ==
  /\ \/ /\ frags \in FragmentLists
        /\ content = Str(TextOf(frags))
     \/ /\ frags = <<>>
        /\ content = ContentParts
  /\ filePath \in FilePaths
  /\ pstate = "input"
  /\ parsed = NoParse
  /\ config = NoConfig /\ diffs = <<>>
  /\ FilterUnused
  /\ RunUnused
  /\ SingleUnused
  /\ LoadUnused
  /\ PromptUnused

Parse ==
  /\ pstate = "input"
  /\ parsed' = parseReviewResponse(content, filePath)
  /\ pstate' = IF parsed'.thrown THEN "thrown" ELSE "returned"
  /\ UNCHANGED <<frags, content, filePath>>
  /\ UNCHANGED <<filterVars, runVars, singleVars, loadVars, promptVars>>

ParseNext == Parse

SpecParse == ParseInit /\ [][ParseNext]_vars

(***************************************************************************)
(* The filter on its own: a configuration and a list of diffs, filtered    *)
(* once.                                                                   *)
(***************************************************************************)
FilterInit ==
  /\ \/ /\ config \in MixedConfigs
        /\ diffs \in DiffLists
     \/ /\ config \in SingleConfigs
        /\ diffs \in {<<Diff(p)>> : p \in AllPaths}
  /\ fstate = "input"
  /\ filtered = NoFilter
  /\ ParserUnused
  /\ RunUnused
  /\ SingleUnused
  /\ LoadUnused
  /\ PromptUnused

Filter ==
  /\ fstate = "input"
  /\ filtered' = filterDiffs(diffs, config)
  /\ fstate' = IF filtered'.thrown THEN "thrown" ELSE "filtered"
  /\ UNCHANGED <<config, diffs>>
  /\ UNCHANGED <<parseVars, runVars, singleVars, loadVars, promptVars>>

FilterNext == Filter

SpecFilter == FilterInit /\ [][FilterNext]_vars

(***************************************************************************)
(* A run of review()                                                       *)
(***************************************************************************)
\* what the model answers to a review prompt
ReviewResponses ==
  {"TEXT", "J_GOOD", "J_CRITICAL", "J_NOSEVERITY", "J_NULLISSUE", "F_EMPTY", "F_WARNING"}
\* what the model answers to the summary prompt
SummaryTexts == {"summary text"}

RunConfigs ==
  {NoConfig,
   Review(List(<<StarDotA>>), List(<<<<"a", SLASH>>>>), Unset, Unset),
   Review(Unset, Unset, Unset, List(<<StarPlus>>))}

Init ==
  /\ config \in RunConfigs
  /\ diffs \in DiffLists
  /\ batchCapable \in BOOLEAN
  /\ pc = "Idle"
  /\ filteredDiffs = <<>> /\ results = <<>> /\ rendered = <<>>
  /\ summary = NoSummary /\ summaryInput = <<>>
  /\ saved = <<>> /\ delivered = <<>> /\ calls = <<>>
  /\ failure = "none" /\ returned = NotReturned
  /\ inflight = {} /\ invoked = <<>> /\ prompt = NoPrompt /\ batchInput = NoBatch
  /\ attempted = <<>> /\ logged = <<>>
  /\ ParserUnused
  /\ FilterUnused
  /\ SingleUnused
  /\ LoadUnused
  /\ PromptUnused

\* review() rethrows the exception of a call (lines 160-163)
Fail(call) ==
  /\ pc' = "Failed"
  /\ failure' = call

\* getCodeDiffs answers and review() goes on without the early return of
\* lines 95-98
GetCodeDiffsNoEarlyReturn ==
  /\ pc = "Idle"
  /\ calls' = Append(calls, "getCodeDiffs")
  /\ \E f \in {filterDiffs(diffs, config)} :
       IF f.thrown
         THEN /\ Fail("filterDiffs")
              /\ UNCHANGED filteredDiffs
         ELSE /\ filteredDiffs' = f.diffs
              /\ pc' = IF f.diffs = <<>> THEN "Saving" ELSE "ReviewingFiles"
              /\ UNCHANGED failure
  /\ UNCHANGED returned
  /\ UNCHANGED <<batchCapable, results, rendered, summary, summaryInput, saved, delivered>>
  /\ UNCHANGED <<inflight, invoked, prompt, batchInput, attempted, logged>>
  /\ UNCHANGED <<parseVars, filterVars, singleVars, loadVars, promptVars>>

\* lines 92-103: getCodeDiffs answers; no diffs end the run, otherwise the
\* diffs are filtered and the loop over the filtered diffs begins
GetCodeDiffs ==
  /\ pc = "Idle"
  /\ calls' = Append(calls, "getCodeDiffs")
  /\ IF diffs = <<>>
       THEN /\ pc' = "Done"
            /\ returned' = [set |-> TRUE, results |-> <<>>]
            /\ UNCHANGED <<filteredDiffs, failure>>
       ELSE /\ \E f \in {filterDiffs(diffs, config)} :
                 IF f.thrown
                   THEN /\ Fail("filterDiffs")
                        /\ UNCHANGED filteredDiffs
                   ELSE /\ filteredDiffs' = f.diffs
                        /\ pc' = IF f.diffs = <<>> THEN "Saving" ELSE "ReviewingFiles"
                        /\ UNCHANGED failure
            /\ UNCHANGED returned
  /\ UNCHANGED <<batchCapable, results, rendered, summary, summaryInput, saved, delivered>>
  /\ UNCHANGED <<inflight, invoked, prompt, batchInput, attempted, logged>>
  /\ UNCHANGED <<parseVars, filterVars, singleVars, loadVars, promptVars>>

\* getCodeDiffs throws
GetCodeDiffsFails ==
  /\ pc = "Idle"
  /\ calls' = Append(calls, "getCodeDiffs")
  /\ Fail("getCodeDiffs")
  /\ UNCHANGED <<batchCapable, filteredDiffs, results, rendered, summary, summaryInput,
                 saved, delivered, returned>>
  /\ UNCHANGED <<inflight, invoked, prompt, batchInput, attempted, logged>>
  /\ UNCHANGED <<parseVars, filterVars, singleVars, loadVars, promptVars>>

\* the loop that starts the reviewCode call of the next diff without awaiting
\* the pending one
CallReviewCodeNoAwait ==
  /\ pc \in {"ReviewingFiles", "AwaitingReview"}
  /\ Len(invoked) < Len(filteredDiffs)
  /\ calls' = Append(calls, "reviewCode")
  /\ invoked' = Append(invoked, Len(invoked) + 1)
  /\ inflight' = inflight \cup {Len(invoked) + 1}
  /\ pc' = "AwaitingReview"
  /\ UNCHANGED <<batchCapable, filteredDiffs, results, rendered, summary, summaryInput,
                 saved, delivered, failure, returned>>
  /\ UNCHANGED <<prompt, batchInput, attempted, logged>>
  /\ UNCHANGED <<parseVars, filterVars, singleVars, loadVars, promptVars>>

\* lines 107-111, the head of one turn of the loop: reviewCode is called for
\* the next filtered diff and awaited
CallReviewCode ==
  /\ pc = "ReviewingFiles"
  /\ calls' = Append(calls, "reviewCode")
  /\ invoked' = Append(invoked, Len(results) + 1)
  /\ inflight' = inflight \cup {Len(results) + 1}
  /\ pc' = "AwaitingReview"
  /\ UNCHANGED <<batchCapable, filteredDiffs, results, rendered, summary, summaryInput,
                 saved, delivered, failure, returned>>
  /\ UNCHANGED <<prompt, batchInput, attempted, logged>>
  /\ UNCHANGED <<parseVars, filterVars, singleVars, loadVars, promptVars>>

\* lines 111-128, the rest of the turn: reviewCode answers for the diff, the
\* result is pushed, and rendered when only one diff is under review
ReviewFile ==
  /\ pc = "AwaitingReview"
  /\ inflight' = inflight \ {Len(results) + 1}
  /\ \E response \in ReviewResponses :
       \E answer \in
            {reviewCode(filteredDiffs[Len(results) + 1], Str(TextOf(<<response>>))).result} :
         /\ results' = Append(results, answer)
         /\ IF Len(filteredDiffs) = 1
              THEN /\ calls' = Append(calls, "formatSingleFileReview")
                   /\ \E formattedResult \in {formatSingleFileReview(answer)} :
                        IF formattedResult.thrown
                          THEN /\ Fail("formatSingleFileReview")
                               /\ UNCHANGED rendered
                          ELSE /\ rendered' = Append(rendered, formattedResult)
                               /\ pc' = "Saving"
                               /\ UNCHANGED failure
              ELSE /\ pc' = IF Len(results') = Len(filteredDiffs) THEN "Saving"
                            ELSE "ReviewingFiles"
                   /\ UNCHANGED <<calls, rendered, failure>>
  /\ UNCHANGED <<batchCapable, filteredDiffs, summary, summaryInput, saved, delivered,
                 returned>>
  /\ UNCHANGED <<invoked, prompt, batchInput, attempted, logged>>
  /\ UNCHANGED <<parseVars, filterVars, singleVars, loadVars, promptVars>>

\* reviewCode fails and review() starts the call again
ReviewFileFailsRetry ==
  /\ pc = "AwaitingReview"
  /\ inflight' = inflight \ {Len(results) + 1}
  /\ pc' = "ReviewingFiles"
  /\ UNCHANGED <<batchCapable, filteredDiffs, results, rendered, summary, summaryInput,
                 saved, delivered, calls, failure, returned>>
  /\ UNCHANGED <<invoked, prompt, batchInput, attempted, logged>>
  /\ UNCHANGED <<parseVars, filterVars, singleVars, loadVars, promptVars>>

\* reviewCode throws: the API call fails or answers without content
\* (default.ts lines 282-311), and review() rethrows
ReviewFileFails ==
  /\ pc = "AwaitingReview"
  /\ inflight' = inflight \ {Len(results) + 1}
  /\ Fail("reviewCode")
  /\ UNCHANGED <<batchCapable, filteredDiffs, results, rendered, summary, summaryInput,
                 saved, delivered, calls, returned>>
  /\ UNCHANGED <<invoked, prompt, batchInput, attempted, logged>>
  /\ UNCHANGED <<parseVars, filterVars, singleVars, loadVars, promptVars>>

\* the results are written only when there are some
SaveReviewResultsSkipEmpty ==
  /\ pc = "Saving"
  /\ calls' = IF results = <<>> THEN calls ELSE Append(calls, "saveReviewResults")
  /\ saved' = IF results = <<>> THEN saved ELSE Append(saved, "results")
  /\ pc' = IF Len(results) > 1 /\ Len(results) > 0 THEN "Aggregating" ELSE "Notifying"
  /\ UNCHANGED <<batchCapable, filteredDiffs, results, rendered, summary, summaryInput,
                 delivered, failure, returned>>
  /\ UNCHANGED <<inflight, invoked, prompt, batchInput, attempted, logged>>
  /\ UNCHANGED <<parseVars, filterVars, singleVars, loadVars, promptVars>>

\* lines 133-138: the results are written; more than one result asks for a summary
SaveReviewResults ==
  /\ pc = "Saving"
  /\ calls' = Append(calls, "saveReviewResults")
  /\ saved' = Append(saved, "results")
  /\ pc' = IF Len(results) > 1 /\ Len(results) > 0 THEN "Aggregating" ELSE "Notifying"
  /\ UNCHANGED <<batchCapable, filteredDiffs, results, rendered, summary, summaryInput,
                 delivered, failure, returned>>
  /\ UNCHANGED <<inflight, invoked, prompt, batchInput, attempted, logged>>
  /\ UNCHANGED <<parseVars, filterVars, singleVars, loadVars, promptVars>>

\* the file manager throws
SaveReviewResultsFails ==
  /\ pc = "Saving"
  /\ calls' = Append(calls, "saveReviewResults")
  /\ Fail("saveReviewResults")
  /\ UNCHANGED <<batchCapable, filteredDiffs, results, rendered, summary, summaryInput,
                 saved, delivered, returned>>
  /\ UNCHANGED <<inflight, invoked, prompt, batchInput, attempted, logged>>
  /\ UNCHANGED <<parseVars, filterVars, singleVars, loadVars, promptVars>>

\* line 139: generateSummary builds its prompt from the results, which throws
\* on a malformed issue, and returns the content the API answers with
GenerateSummary ==
  /\ pc = "Aggregating"
  /\ calls' = Append(calls, "generateSummary")
  /\ summaryInput' = results
  /\ prompt' = buildSummaryPrompt(results)
  /\ IF prompt'.thrown
       THEN /\ Fail("buildSummaryPrompt")
            /\ UNCHANGED summary
       ELSE /\ summary' \in SummaryTexts
            /\ pc' = "SavingSummary"
            /\ UNCHANGED failure
  /\ UNCHANGED <<batchCapable, filteredDiffs, results, rendered, saved, delivered, returned>>
  /\ UNCHANGED <<inflight, invoked, batchInput, attempted, logged>>
  /\ UNCHANGED <<parseVars, filterVars, singleVars, loadVars, promptVars>>

\* generateSummary throws: the API call fails or answers without content
GenerateSummaryFails ==
  /\ pc = "Aggregating"
  /\ ~SummaryPromptThrows(results)
  /\ calls' = Append(calls, "generateSummary")
  /\ summaryInput' = results
  /\ prompt' = buildSummaryPrompt(results)
  /\ Fail("generateSummary")
  /\ UNCHANGED <<batchCapable, filteredDiffs, results, rendered, summary, saved, delivered,
                 returned>>
  /\ UNCHANGED <<inflight, invoked, batchInput, attempted, logged>>
  /\ UNCHANGED <<parseVars, filterVars, singleVars, loadVars, promptVars>>

\* lines 141-145: the summary is written
SaveSummary ==
  /\ pc = "SavingSummary"
  /\ calls' = Append(calls, "saveSummary")
  /\ saved' = Append(saved, "summary")
  /\ pc' = "Notifying"
  /\ UNCHANGED <<batchCapable, filteredDiffs, results, rendered, summary, summaryInput,
                 delivered, failure, returned>>
  /\ UNCHANGED <<inflight, invoked, prompt, batchInput, attempted, logged>>
  /\ UNCHANGED <<parseVars, filterVars, singleVars, loadVars, promptVars>>

SaveSummaryFails ==
  /\ pc = "SavingSummary"
  /\ calls' = Append(calls, "saveSummary")
  /\ Fail("saveSummary")
  /\ UNCHANGED <<batchCapable, filteredDiffs, results, rendered, summary, summaryInput,
                 saved, delivered, returned>>
  /\ UNCHANGED <<inflight, invoked, prompt, batchInput, attempted, logged>>
  /\ UNCHANGED <<parseVars, filterVars, singleVars, loadVars, promptVars>>

\* the submissions of the per-issue loop of sendBatchReviewNotifications
\* (default.ts lines 91-96) when the submission for pair f is the one that
\* fails (0: none does): the loop ends at the first issue formatIssueComment
\* throws on, or at the failed submission
CommentAttempts(pairs, f) ==
  LET reach == Reachable(pairs)
      last == IF f = 0 \/ f > reach THEN reach ELSE f
  IN [n \in 1..last |->
        Attempt("comment", pairs[n].file, Get(pairs[n].issue, KLine), n # f)]

\* what sendBatchReviewNotifications (default.ts lines 78-101) attempts: the
\* batch submission on a platform that has one, otherwise the comments of
\* the issues in order
BatchOutcomes ==
  IF batchCapable
    THEN {<<Attempt("batch", <<>>, Num(Len(results)), ok)>> : ok \in BOOLEAN}
    ELSE {CommentAttempts(pairs, f) :
            pairs \in {IssuePairs(results)}, f \in 0..Len(IssuePairs(results))}

\* the catch of sendBatchReviewNotifications (lines 98-100) has logged an error
BatchLogs(attempts) ==
  \/ \E n \in 1..Len(attempts) : ~attempts[n].ok
  \/ ~batchCapable /\ Len(attempts) < Len(IssuePairs(results))

\* sendBatchReviewNotifications without its catch: the exception reaches
\* review()
SendBatchReviewNotificationsUncaught ==
  /\ pc = "Notifying"
  /\ calls' = Append(calls, "sendBatchReviewNotifications")
  /\ batchInput' = [set |-> TRUE, results |-> results]
  /\ \E attempts \in BatchOutcomes :
       /\ attempted' = attempted \o attempts
       /\ delivered' = delivered \o Deliveries(attempts)
       /\ IF BatchLogs(attempts)
            THEN /\ Fail("sendBatchReviewNotifications")
                 /\ UNCHANGED returned
            ELSE /\ UNCHANGED failure
                 /\ IF summary # NoSummary
                      THEN /\ pc' = "NotifyingSummary"
                           /\ UNCHANGED returned
                      ELSE /\ pc' = "Done"
                           /\ returned' = [set |-> TRUE, results |-> results]
  /\ UNCHANGED <<batchCapable, filteredDiffs, results, rendered, summary, summaryInput,
                 saved>>
  /\ UNCHANGED <<inflight, invoked, prompt, logged>>
  /\ UNCHANGED <<parseVars, filterVars, singleVars, loadVars, promptVars>>

\* lines 146-158: the batch notification, whose failure is logged; without a
\* summary the run is over
SendBatchReviewNotifications ==
  /\ pc = "Notifying"
  /\ calls' = Append(calls, "sendBatchReviewNotifications")
  /\ batchInput' = [set |-> TRUE, results |-> results]
  /\ \E attempts \in BatchOutcomes :
       /\ attempted' = attempted \o attempts
       /\ delivered' = delivered \o Deliveries(attempts)
       /\ logged' = IF BatchLogs(attempts)
                      THEN Append(logged, "sendBatchReviewNotifications")
                      ELSE logged
  /\ IF summary # NoSummary
       THEN /\ pc' = "NotifyingSummary"
            /\ UNCHANGED returned
       ELSE /\ pc' = "Done"
            /\ returned' = [set |-> TRUE, results |-> results]
  /\ UNCHANGED <<batchCapable, filteredDiffs, results, rendered, summary, summaryInput,
                 saved, failure>>
  /\ UNCHANGED <<inflight, invoked, prompt>>
  /\ UNCHANGED <<parseVars, filterVars, singleVars, loadVars, promptVars>>

\* the summary notification sent as soon as the summary is saved, ahead of
\* the batch notification
SendSummaryNotificationEarly ==
  /\ pc = "Notifying" /\ summary # NoSummary
  /\ \A n \in 1..Len(calls) : calls[n] # "sendSummaryNotification"
  /\ calls' = Append(calls, "sendSummaryNotification")
  /\ \E ok \in BOOLEAN :
       /\ attempted' = Append(attempted, Attempt("summary", <<>>, Undef, ok))
       /\ delivered' = IF ok THEN Append(delivered, Delivery("summary", <<>>, Undef))
                       ELSE delivered
       /\ logged' = IF ok THEN logged ELSE Append(logged, "sendSummaryNotification")
  /\ UNCHANGED <<batchCapable, pc, filteredDiffs, results, rendered, summary, summaryInput,
                 saved, failure, returned>>
  /\ UNCHANGED <<inflight, invoked, prompt, batchInput>>
  /\ UNCHANGED <<parseVars, filterVars, singleVars, loadVars, promptVars>>

\* lines 151-158: the summary notification (default.ts lines 39-50), whose
\* failure is logged, and the return
SendSummaryNotification ==
  /\ pc = "NotifyingSummary"
  /\ calls' = Append(calls, "sendSummaryNotification")
  /\ \E ok \in BOOLEAN :
       /\ attempted' = Append(attempted, Attempt("summary", <<>>, Undef, ok))
       /\ delivered' = IF ok THEN Append(delivered, Delivery("summary", <<>>, Undef))
                       ELSE delivered
       /\ logged' = IF ok THEN logged ELSE Append(logged, "sendSummaryNotification")
  /\ pc' = "Done"
  /\ returned' = [set |-> TRUE, results |-> results]
  /\ UNCHANGED <<batchCapable, filteredDiffs, results, rendered, summary, summaryInput,
                 saved, failure>>
  /\ UNCHANGED <<inflight, invoked, prompt, batchInput>>
  /\ UNCHANGED <<parseVars, filterVars, singleVars, loadVars, promptVars>>

Next ==
  \/ GetCodeDiffs
  \/ GetCodeDiffsFails
  \/ CallReviewCode
  \/ ReviewFile
  \/ ReviewFileFails
  \/ SaveReviewResults
  \/ SaveReviewResultsFails
  \/ GenerateSummary
  \/ GenerateSummaryFails
  \/ SaveSummary
  \/ SaveSummaryFails
  \/ SendBatchReviewNotifications
  \/ SendSummaryNotification

Spec == Init /\ [][Next]_vars

(***************************************************************************)
(* A run of reviewSingleFile(targetFile) (lines 228-277)                   *)
(***************************************************************************)
TargetFiles == DiffPaths

SingleInit ==
  /\ diffs \in DiffLists
  /\ targetFile \in TargetFiles
  /\ pc = "SingleIdle"
  /\ config \in RunConfigs
  /\ batchCapable = FALSE
  /\ filteredDiffs = <<>> /\ results = <<>> /\ rendered = <<>>
  /\ summary = NoSummary /\ summaryInput = <<>>
  /\ saved = <<>> /\ delivered = <<>> /\ calls = <<>>
  /\ failure = "none" /\ returned = NotReturned
  /\ inflight = {} /\ invoked = <<>> /\ prompt = NoPrompt /\ batchInput = NoBatch
  /\ attempted = <<>> /\ logged = <<>>
  /\ reviewResult = MakeResult(<<>>, <<>>, Str(<<>>))
  /\ outcome = NoOutcome
  /\ ParserUnused
  /\ FilterUnused
  /\ LoadUnused
  /\ PromptUnused

\* diffs.find(diff => diff.newPath === targetFile): the index of the first
\* diff of that path, 0 when there is none
FindTarget(ds, target) ==
  LET hits == {n \in 1..Len(ds) : ds[n].newPath = target}
  IN IF hits = {} THEN 0 ELSE CHOOSE n \in hits : \A m \in hits : n <= m

ReturnNull == [set |-> TRUE, result |-> MakeResult(<<>>, <<>>, Str(<<>>)), null |-> TRUE]
ReturnResult(result) == [set |-> TRUE, result |-> result, null |-> FALSE]

\* the variables reviewSingleFile leaves alone
SingleFrame ==
  /\ UNCHANGED <<batchCapable, filteredDiffs, results, summary, summaryInput, saved,
                 returned, prompt, batchInput, logged, targetFile>>
  /\ UNCHANGED <<parseVars, filterVars, loadVars, promptVars>>

\* getCodeDiffs answers and the target, when the diffs do not have it, is the
\* first diff
SingleGetCodeDiffsFirstDiff ==
  /\ pc = "SingleIdle"
  /\ IF diffs = <<>>
       THEN /\ calls' = Append(calls, "getCodeDiffs")
            /\ pc' = "Done"
            /\ outcome' = ReturnNull
            /\ UNCHANGED <<invoked, inflight>>
       ELSE /\ calls' = calls \o <<"getCodeDiffs", "reviewCode">>
            /\ invoked' = Append(invoked, Max(FindTarget(diffs, targetFile), 1))
            /\ inflight' = inflight \cup {Max(FindTarget(diffs, targetFile), 1)}
            /\ pc' = "SingleAwaitingReview"
            /\ UNCHANGED outcome
  /\ UNCHANGED <<reviewResult, rendered, attempted, delivered, failure>>
  /\ SingleFrame

\* getCodeDiffs answers and a target the diff filter drops counts as not found
SingleGetCodeDiffsFiltered ==
  /\ pc = "SingleIdle"
  /\ IF \/ diffs = <<>> \/ FindTarget(diffs, targetFile) = 0
        \/ filterDiffs(<<Diff(targetFile)>>, config).diffs = <<>>
       THEN /\ calls' = Append(calls, "getCodeDiffs")
            /\ pc' = "Done"
            /\ outcome' = ReturnNull
            /\ UNCHANGED <<invoked, inflight>>
       ELSE /\ calls' = calls \o <<"getCodeDiffs", "reviewCode">>
            /\ invoked' = Append(invoked, FindTarget(diffs, targetFile))
            /\ inflight' = inflight \cup {FindTarget(diffs, targetFile)}
            /\ pc' = "SingleAwaitingReview"
            /\ UNCHANGED outcome
  /\ UNCHANGED <<reviewResult, rendered, attempted, delivered, failure>>
  /\ SingleFrame

\* lines 233-252: getCodeDiffs answers; without diffs or without a diff of
\* the target's path the run ends with null, otherwise reviewCode is called
\* for the target's diff and awaited
SingleGetCodeDiffs ==
  /\ pc = "SingleIdle"
  /\ IF diffs = <<>> \/ FindTarget(diffs, targetFile) = 0
       THEN /\ calls' = Append(calls, "getCodeDiffs")
            /\ pc' = "Done"
            /\ outcome' = ReturnNull
            /\ UNCHANGED <<invoked, inflight>>
       ELSE /\ calls' = calls \o <<"getCodeDiffs", "reviewCode">>
            /\ invoked' = Append(invoked, FindTarget(diffs, targetFile))
            /\ inflight' = inflight \cup {FindTarget(diffs, targetFile)}
            /\ pc' = "SingleAwaitingReview"
            /\ UNCHANGED outcome
  /\ UNCHANGED <<reviewResult, rendered, attempted, delivered, failure>>
  /\ SingleFrame

\* getCodeDiffs throws and reviewSingleFile rethrows (lines 273-276)
SingleGetCodeDiffsFails ==
  /\ pc = "SingleIdle"
  /\ calls' = Append(calls, "getCodeDiffs")
  /\ Fail("getCodeDiffs")
  /\ UNCHANGED <<invoked, inflight, reviewResult, rendered, attempted, delivered, outcome>>
  /\ SingleFrame

\* lines 252-263: reviewCode answers and the report of the result is
\* rendered; a result without issues is returned at once
SingleReviewCode ==
  /\ pc = "SingleAwaitingReview"
  /\ inflight' = {}
  /\ \E response \in ReviewResponses :
       \E answer \in
            {reviewCode(diffs[FindTarget(diffs, targetFile)],
                        Str(TextOf(<<response>>))).result} :
         /\ reviewResult' = answer
         /\ calls' = Append(calls, "formatSingleFileReview")
         /\ \E formattedResult \in {formatSingleFileReview(answer)} :
              IF formattedResult.thrown
                THEN /\ Fail("formatSingleFileReview")
                     /\ UNCHANGED <<rendered, outcome>>
                ELSE /\ rendered' = Append(rendered, formattedResult)
                     /\ UNCHANGED failure
                     /\ IF answer.issues = <<>>
                          THEN /\ pc' = "Done"
                               /\ outcome' = ReturnResult(answer)
                          ELSE /\ pc' = "SingleCommenting"
                               /\ UNCHANGED outcome
  /\ UNCHANGED <<invoked, attempted, delivered>>
  /\ SingleFrame

\* reviewCode throws
SingleReviewCodeFails ==
  /\ pc = "SingleAwaitingReview"
  /\ inflight' = {}
  /\ Fail("reviewCode")
  /\ UNCHANGED <<calls, invoked, reviewResult, rendered, attempted, delivered, outcome>>
  /\ SingleFrame

\* the issue of the next turn of the comment loop
NextIssue == reviewResult.issues[Len(attempted) + 1]

\* lines 265-271, one turn of the loop: the comment of the next issue is
\* formatted (which throws on an issue that is null) and submitted; after the
\* last one the result is returned
SingleSubmitComment ==
  /\ pc = "SingleCommenting"
  /\ IF ReadThrows(NextIssue)
       THEN /\ calls' = Append(calls, "formatIssueComment")
            /\ Fail("formatIssueComment")
            /\ UNCHANGED <<attempted, delivered, outcome>>
       ELSE /\ calls' = Append(calls, "submitReviewComment")
            /\ attempted' = Append(attempted,
                                   Attempt("comment", targetFile, Get(NextIssue, KLine), TRUE))
            /\ delivered' = Append(delivered,
                                   Delivery("comment", targetFile, Get(NextIssue, KLine)))
            /\ UNCHANGED failure
            /\ IF Len(attempted') = Len(reviewResult.issues)
                 THEN /\ pc' = "Done"
                      /\ outcome' = ReturnResult(reviewResult)
                 ELSE UNCHANGED <<pc, outcome>>
  /\ UNCHANGED <<invoked, inflight, reviewResult, rendered>>
  /\ SingleFrame

\* submitReviewComment throws and reviewSingleFile rethrows (lines 273-276)
SingleSubmitCommentFails ==
  /\ pc = "SingleCommenting"
  /\ ~ReadThrows(NextIssue)
  /\ calls' = Append(calls, "submitReviewComment")
  /\ attempted' = Append(attempted,
                         Attempt("comment", targetFile, Get(NextIssue, KLine), FALSE))
  /\ Fail("submitReviewComment")
  /\ UNCHANGED <<invoked, inflight, reviewResult, rendered, delivered, outcome>>
  /\ SingleFrame

SingleNext ==
  \/ SingleGetCodeDiffs
  \/ SingleGetCodeDiffsFails
  \/ SingleReviewCode
  \/ SingleReviewCodeFails
  \/ SingleSubmitComment
  \/ SingleSubmitCommentFails

SpecSingleFile == SingleInit /\ [][SingleNext]_vars

(***************************************************************************)
(* loadConfig, once, for every combination of sources                      *)
(***************************************************************************)
LoadInit ==
  /\ sources \in [file : PartialConfigs("file-model", "file-key"),
                  env : Environments,
                  cli : PartialConfigs("cli-model", "cli-key")]
  /\ mergedConfig = NotLoaded
  /\ config = NoConfig /\ diffs = <<>>
  /\ ParserUnused
  /\ FilterUnused
  /\ RunUnused
  /\ SingleUnused
  /\ PromptUnused

LoadConfig ==
  /\ ~mergedConfig.set
  /\ mergedConfig' = [set |-> TRUE,
                      config |-> loadConfig(sources.file, sources.env, sources.cli)]
  /\ UNCHANGED sources
  /\ UNCHANGED <<parseVars, filterVars, runVars, singleVars, promptVars>>

LoadNext == LoadConfig

SpecConfig == LoadInit /\ [][LoadNext]_vars

(***************************************************************************)
(* The custom prompt templates on their own: a template and its values,    *)
(* filled once.                                                            *)
(***************************************************************************)
PromptInit ==
  /\ \/ /\ customPrompt \in ReviewTemplates
        /\ promptArguments \in
             {[NoArguments EXCEPT !.kind = "review", !.language = l, !.newPath = p,
                                  !.diffContent = d] :
                l \in Languages, p \in PromptPaths, d \in DiffContents}
     \/ /\ customPrompt \in SummaryTemplates
        /\ promptArguments \in
             {[NoArguments EXCEPT !.kind = "summary", !.filesCount = <<"2">>,
                                  !.issuesCount = <<"3">>, !.detailedResults = d,
                                  !.severityDistribution = <<"distribution">>] :
                d \in DetailedResults}
  /\ builtPrompt = NotBuilt
  /\ config = NoConfig /\ diffs = <<>>
  /\ ParserUnused
  /\ FilterUnused
  /\ RunUnused
  /\ SingleUnused
  /\ LoadUnused

BuildReviewPrompt ==
  /\ ~builtPrompt.built
  /\ promptArguments.kind = "review"
  /\ builtPrompt' =
       [built |-> TRUE,
        text |-> buildReviewPrompt(customPrompt, promptArguments.language,
                                   promptArguments.newPath, promptArguments.diffContent)]
  /\ UNCHANGED <<customPrompt, promptArguments>>
  /\ UNCHANGED <<parseVars, filterVars, runVars, singleVars, loadVars>>

BuildSummaryPrompt ==
  /\ ~builtPrompt.built
  /\ promptArguments.kind = "summary"
  /\ builtPrompt' =
       [built |-> TRUE,
        text |-> buildCustomSummaryPrompt(customPrompt, promptArguments.filesCount,
                                          promptArguments.issuesCount,
                                          promptArguments.detailedResults,
                                          promptArguments.severityDistribution)]
  /\ UNCHANGED <<customPrompt, promptArguments>>
  /\ UNCHANGED <<parseVars, filterVars, runVars, singleVars, loadVars>>

PromptNext == BuildReviewPrompt \/ BuildSummaryPrompt

SpecPrompt == PromptInit /\ [][PromptNext]_vars

(***************************************************************************)
(* Properties of the response parser (SpecParse)                           *)
(***************************************************************************)
Returned == pstate = "returned"
Issues == parsed.result.issues
Severities == {Str(<<"info">>), Str(<<"warning">>), Str(<<"error">>)}

\* C1: parseReviewResponse never throws: every call returns a result for the
\* given file path with a list of issues, and when an internal error occurred
\* (content.match failing on a value that is not a string) the result has
\* exactly one issue: severity error, the fixed diagnostic message, and the
\* error detail as its suggestion.
C1_NeverThrows ==
  /\ pstate # "thrown"
  /\ Returned =>
       /\ ~parsed.thrown
       /\ parsed.result.file = filePath
       /\ DOMAIN Issues = 1..Len(Issues)
       /\ (content.t # "string" \/ parsed.error # <<>>) =>
            /\ Len(Issues) = 1
            /\ Get(Issues[1], KSeverity) = Str(<<"error">>)
            /\ Get(Issues[1], KMessage) = Str(<<"PARSE_ERROR_ZH">>)
            /\ Get(Issues[1], KSuggestion) = Str(parsed.error)
            /\ parsed.error = NotAStringError

\* C1 witness: a call whose content is not a string has returned the error result
C1_Witness == Returned /\ content.t # "string" /\ parsed.via = "error" /\ Len(Issues) = 1

\* C2: every issue of every returned result has a severity that is one of
\* info, warning, error.  Violated: the issues of a fenced JSON document are
\* returned as they are.
C2_SeverityInvariant ==
  Returned => \A n \in 1..Len(Issues) : Get(Issues[n], KSeverity) \in Severities

\* a fragment that is a fenced block holding valid JSON with an issues array
HasIssuesArray(f) ==
  f.kind \in {"json", "fence"} /\ f.valid /\ Get(f.value, KIssues).t = "array"

\* the block line 529 is written to pick: the first one opened by the json
\* label and a newline, the first fenced block when there is none, 0 without
FirstOfKind(ids, kind) ==
  LET hits == {n \in 1..Len(ids) : Fragment(ids[n]).kind = kind}
  IN IF hits = {} THEN 0 ELSE CHOOSE n \in hits : \A m \in hits : n <= m
SelectedBlock(ids) ==
  IF FirstOfKind(ids, "json") # 0 THEN FirstOfKind(ids, "json") ELSE FirstOfKind(ids, "fence")

\* C3 as stated: when the text contains some fenced block holding valid JSON
\* with an issues array, the returned issues are such a block's array and the
\* result comes from the fenced-JSON strategy.
C3_AnyValidBlock ==
  (Returned /\ content.t = "string"
     /\ \E n \in 1..Len(frags) : HasIssuesArray(Fragment(frags[n])))
  => /\ parsed.via = "json"
     /\ \E n \in 1..Len(frags) :
          /\ HasIssuesArray(Fragment(frags[n]))
          /\ Issues = Get(Fragment(frags[n]).value, KIssues).a

\* C3 amended: when the one block the parser selects (the first block opened
\* by the json label and a newline, else the first fenced block) holds valid
\* JSON with an issues array, the returned issues are that array exactly and
\* no text strategy is used.
C3_SelectedBlock ==
  (Returned /\ content.t = "string" /\ SelectedBlock(frags) # 0
     /\ HasIssuesArray(Fragment(frags[SelectedBlock(frags)])))
  => /\ parsed.via = "json"
     /\ Issues = Get(Fragment(frags[SelectedBlock(frags)]).value, KIssues).a

\* C3 witness: a code block, then a labelled block with two issues, parsed
C3_Witness ==
  /\ Returned /\ Len(frags) = 2
  /\ Fragment(frags[1]).kind = "fence" /\ ~Fragment(frags[1]).valid
  /\ SelectedBlock(frags) = 2 /\ HasIssuesArray(Fragment(frags[2]))
  /\ Len(Issues) = 2 /\ parsed.via = "json"

\* C4: a text without fenced JSON holding a level-3 header marked with the red
\* circle and, below it, the level-4 header of line 12 with "message text",
\* is parsed into an issue of severity error, line 12, message "message text".
C4_SectionedMarkdown ==
  (Returned /\ frags = <<"H3_RED", "H4_LINE">>)
  => \E n \in 1..Len(Issues) :
       /\ Get(Issues[n], KSeverity) = Str(<<"error">>)
       /\ Get(Issues[n], KLine) = Num(12)
       /\ Get(Issues[n], KMessage) = Str(<<"message", SP, "text">>)

\* no fence, no header, no colon
NoMarkers(s) == \A i \in 1..Len(s) : s[i] \notin {BT, HASH} \cup Colons

\* t is s without its leading and trailing white space
IsTrimOf(t, s) ==
  \E i, j \in 1..Len(s) :
    /\ i <= j /\ s[i] \notin WS /\ s[j] \notin WS
    /\ \A k \in 1..Len(s) : (k < i \/ k > j) => s[k] \in WS
    /\ t = [k \in 1..(j - i + 1) |-> s[i + k - 1]]

\* C5: a text that is not empty after trimming and holds no structural marker
\* (no fence, no header, no colon) is parsed into exactly one issue: severity
\* info, the fixed message, and the trimmed text as its suggestion.
C5_DegenerateFallback ==
  (Returned /\ content.t = "string" /\ NoMarkers(content.s)
     /\ \E i \in 1..Len(content.s) : content.s[i] \notin WS)
  => /\ Len(Issues) = 1
     /\ DOMAIN Issues[1].k = 1..3
     /\ Get(Issues[1], KSeverity) = Str(<<"info">>)
     /\ Get(Issues[1], KMessage) = Str(<<"REVIEW_FEEDBACK_ZH">>)
     /\ Get(Issues[1], KSuggestion).t = "string"
     /\ IsTrimOf(Get(Issues[1], KSuggestion).s, content.s)

\* C5 witness: a text with white space around its words, parsed by the fallback
C5_Witness ==
  /\ Returned /\ content.t = "string" /\ NoMarkers(content.s)
  /\ Len(content.s) > 2 /\ content.s[1] \in WS
  /\ content.s[Len(content.s)] \notin WS
  /\ parsed.via = "degenerate"

(***************************************************************************)
(* Properties of the diff filter (SpecFilter)                              *)
(***************************************************************************)
Filtered == fstate = "filtered"
Kept(diff) == \E m \in 1..Len(filtered.diffs) : filtered.diffs[m] = diff

\* some pattern of the list matches the path
Matches(path, field) ==
  field.set /\ \E n \in 1..Len(field.list) : PatternTest(path, field.list[n]) = "true"

\* the path begins with some prefix of the list
UnderPrefix(path, field) ==
  field.set /\ \E n \in 1..Len(field.list) :
    /\ Len(field.list[n]) <= Len(path)
    /\ SubSeq(path, 1, Len(field.list[n])) = field.list[n]

ShouldKeep(path, review) ==
  /\ ~Matches(path, review.ignoreFiles)
  /\ ~UnderPrefix(path, review.ignorePaths)
  /\ (review.includePatterns.set /\ review.includePatterns.list # <<>>)
       => Matches(path, review.includePatterns)
  /\ ~Matches(path, review.excludePatterns)

\* C6: the diffs filterDiffs returns are exactly the given diffs whose path
\* matches no ignoreFiles pattern, begins with no ignorePaths prefix, matches
\* an includePatterns entry when that list is set and not empty, and matches
\* no excludePatterns entry; so a path matching an include pattern and an
\* ignoreFiles pattern is dropped, and an empty include list restricts nothing.
C6_DecisionOrder ==
  Filtered =>
    /\ \A n \in 1..Len(diffs) : Kept(diffs[n]) <=> ShouldKeep(diffs[n].newPath, config)
    /\ \A m \in 1..Len(filtered.diffs) : \E n \in 1..Len(diffs) : diffs[n] = filtered.diffs[m]

\* C6 witness: a path matching an include pattern and an ignoreFiles pattern
\* has been dropped, next to a diff kept under an empty or matching include list
C6_Witness ==
  /\ Filtered
  /\ \E n \in 1..Len(diffs) :
       /\ Matches(diffs[n].newPath, config.includePatterns)
       /\ Matches(diffs[n].newPath, config.ignoreFiles)
       /\ ~Kept(diffs[n])
  /\ \E n \in 1..Len(diffs) : Kept(diffs[n])

\* the positions after a prefix of the path that the first n characters of
\* the pattern cover, a star covering any run of characters and every other
\* character itself
RECURSIVE WildcardEnds(_, _, _)
WildcardEnds(pattern, n, path) ==
  IF n = 0 THEN {1}
  ELSE IF pattern[n] = STAR
    THEN {e \in 1..(Len(path) + 1) : \E j \in WildcardEnds(pattern, n - 1, path) : j <= e}
  ELSE {j + 1 : j \in {k \in WildcardEnds(pattern, n - 1, path) :
                         k <= Len(path) /\ path[k] = pattern[n]}}

\* the matcher in the words of the specification: whole-path wildcard match for a pattern with a
\* star, equality for a pattern without
WildcardMatch(path, pattern) ==
  IF \E i \in 1..Len(pattern) : pattern[i] = STAR
    THEN (Len(path) + 1) \in WildcardEnds(pattern, Len(pattern), path)
    ELSE path = pattern

ExcludedBySpec(path, review) ==
  \/ review.ignoreFiles.set
     /\ \E n \in 1..Len(review.ignoreFiles.list) :
          WildcardMatch(path, review.ignoreFiles.list[n])
  \/ review.excludePatterns.set
     /\ \E n \in 1..Len(review.excludePatterns.list) :
          WildcardMatch(path, review.excludePatterns.list[n])

\* C7: with only ignoreFiles and excludePatterns configured, the filter
\* answers, and a diff is dropped exactly when its whole path matches one of
\* the patterns, a star standing for any run of characters and every other
\* character for itself, a pattern without a star matching by equality.
C7_MatcherSemantics ==
  (fstate # "input" /\ ~config.ignorePaths.set /\ ~config.includePatterns.set)
  => /\ Filtered
     /\ \A n \in 1..Len(diffs) :
          Kept(diffs[n]) <=> ~ExcludedBySpec(diffs[n].newPath, config)

(***************************************************************************)
(* Properties of a run of review() (Spec)                                  *)
(***************************************************************************)
Count(call) == Cardinality({n \in 1..Len(calls) : calls[n] = call})
Over == pc \in {"Done", "Failed"}

\* the calls that reach outside the program: the platform, the model API, the
\* file system
Collaborators ==
  {"getCodeDiffs", "reviewCode", "saveReviewResults", "generateSummary", "saveSummary"}

\* C8: when getCodeDiffs returns no diffs, review() returns an empty list and
\* has called nothing else: no reviewCode, no generateSummary, nothing saved,
\* no notification.
C8_EmptyRun ==
  (diffs = <<>> /\ pc # "Idle" /\ failure # "getCodeDiffs")
  => /\ pc = "Done"
     /\ returned = [set |-> TRUE, results |-> <<>>]
     /\ calls = <<"getCodeDiffs">>
     /\ saved = <<>> /\ delivered = <<>> /\ results = <<>>

\* C8 witness: a run over an empty change set has returned
C8_Witness == diffs = <<>> /\ pc = "Done" /\ returned.set

\* C9: when exactly one diff remains after filtering, generateSummary is never
\* called and no summary notification is sent, and once reviewCode has
\* produced the file's result and nothing outside the program has failed, the
\* single-file report of that result has been rendered.
C9_SingleFile ==
  (pc \notin {"Idle", "ReviewingFiles"} /\ Len(filteredDiffs) = 1)
  => /\ Count("generateSummary") = 0
     /\ Count("sendSummaryNotification") = 0
     /\ summary = NoSummary
     /\ (Len(results) = 1) =>
          /\ Len(rendered) = 1
          /\ ~rendered[1].thrown
          /\ rendered[1].file = results[1].file
          /\ rendered[1].total = Len(results[1].issues)

\* C10: when two or more diffs remain after filtering, each has produced a
\* result and no call outside the program has failed, the finished run has
\* called generateSummary exactly once, on the full result list, and has
\* sent the batch notification and then one summary notification.
C10_MultiFile ==
  (Over /\ Len(filteredDiffs) >= 2 /\ Len(results) = Len(filteredDiffs)
     /\ failure \notin Collaborators)
  => /\ pc = "Done"
     /\ Count("generateSummary") = 1
     /\ summaryInput = results
     /\ Count("sendBatchReviewNotifications") = 1
     /\ Count("sendSummaryNotification") = 1
     /\ \E i, j \in 1..Len(calls) :
          /\ i < j
          /\ calls[i] = "sendBatchReviewNotifications"
          /\ calls[j] = "sendSummaryNotification"

\* Math.round(count / total * 100) without the division: the integer p with
\* p - 1/2 <= 100 * count / total < p + 1/2
IsRounded(p, count, total) ==
  (2 * p - 1) * total <= 200 * count /\ 200 * count < (2 * p + 1) * total

\* the prompt's percentage of a severity is a number, 0 for no issues at all
PercentageOf(percent, severity) ==
  /\ percent.k = "finite" /\ percent.den = 1
  /\ IF AllIssues(summaryInput) = <<>> THEN percent.num = 0
     ELSE IsRounded(percent.num, CountSeverity(AllIssues(summaryInput), severity),
                    Len(AllIssues(summaryInput)))

\* C11: the percentages buildSummaryPrompt renders are 0 when the results
\* hold no issue at all (never NaN), and round(count / total * 100) when the
\* total is positive.
C11_SummaryPercentages ==
  prompt.built
  => /\ PercentageOf(prompt.errorPercent, "error")
     /\ PercentageOf(prompt.warningPercent, "warning")
     /\ PercentageOf(prompt.infoPercent, "info")

\* C11 witness: a summary prompt built from results without any issue
C11_Witness ==
  prompt.built /\ Len(summaryInput) >= 2 /\ AllIssues(summaryInput) = <<>>

(***************************************************************************)
(* Properties of loadConfig (SpecConfig)                                   *)
(***************************************************************************)
\* the value of the source of highest priority that sets the setting
Highest(cli, env, file, default) ==
  IF cli # Absent THEN cli
  ELSE IF env # Absent THEN env
  ELSE IF file # Absent THEN file
  ELSE default

\* C12: after loadConfig every scalar setting has the value of the highest
\* source that sets it, in the order CLI, environment, config file, defaults.
C12_ConfigPriority ==
  mergedConfig.set
  => /\ mergedConfig.config.ai.model =
          Highest(sources.cli.ai.model, sources.env.AI_REVIEWER_MODEL,
                  sources.file.ai.model, DefaultModel)
     /\ mergedConfig.config.ai.apiKey =
          Highest(sources.cli.ai.apiKey, sources.env.AI_REVIEWER_OPENAI_KEY,
                  sources.file.ai.apiKey, Absent)
     /\ mergedConfig.config.platform.type =
          Highest(sources.cli.platform.type, sources.env.AI_REVIEWER_PLATFORM,
                  sources.file.platform.type, "local")

(***************************************************************************)
(* Properties of a run of reviewSingleFile (SpecSingleFile)                *)
(***************************************************************************)
TargetAbsent == \A n \in 1..Len(diffs) : diffs[n].newPath # targetFile

\* C13: when getCodeDiffs has answered and no diff has the target's path
\* (the empty list included), reviewSingleFile has returned null, and neither
\* reviewCode nor a comment submission was called.
C13_TargetAbsent ==
  (TargetAbsent /\ pc # "SingleIdle" /\ failure # "getCodeDiffs")
  => /\ pc = "Done"
     /\ outcome = ReturnNull
     /\ failure = "none"
     /\ calls = <<"getCodeDiffs">>
     /\ invoked = <<>> /\ attempted = <<>> /\ delivered = <<>>

\* C13 witness: diffs were fetched, none is the target's, and the run is over
C13_Witness == diffs # <<>> /\ TargetAbsent /\ pc = "Done" /\ outcome.set

(***************************************************************************)
(* Further properties of a run of review() (Spec)                          *)
(***************************************************************************)
Notifications == {"sendBatchReviewNotifications", "sendSummaryNotification"}

\* C14: reviewCode is never called twice for a file, and once it has failed
\* for a file the run has failed with that error: no later file is reviewed,
\* nothing is saved, no summary is generated and no notification is sent.
C14_FailFast ==
  /\ \A n \in 1..Len(invoked) : invoked[n] = n
  /\ failure = "reviewCode"
     => /\ pc = "Failed"
        /\ ~returned.set
        /\ calls[Len(calls)] = "reviewCode"
        /\ Count("reviewCode") = Len(results) + 1
        /\ Count("saveReviewResults") = 0 /\ Count("generateSummary") = 0
        /\ Count("saveSummary") = 0
        /\ \A call \in Notifications : Count(call) = 0
        /\ saved = <<>> /\ attempted = <<>> /\ delivered = <<>>

\* C14 witness: reviewCode failed for the second of two files
C14_Witness ==
  failure = "reviewCode" /\ Len(results) = 1 /\ Len(filteredDiffs) = 2

Failed(via) == \E n \in 1..Len(attempted) : attempted[n].via = via /\ ~attempted[n].ok

\* C15: a failed notification never fails the run: the failure is logged,
\* review() returns the full result list, and after a batch notification
\* that failed the summary notification of a generated summary is still
\* attempted.
C15_NotificationFailure ==
  /\ failure \notin Notifications
  /\ (Failed("batch") \/ Failed("comment"))
     => \E n \in 1..Len(logged) : logged[n] = "sendBatchReviewNotifications"
  /\ Failed("summary") => \E n \in 1..Len(logged) : logged[n] = "sendSummaryNotification"
  /\ (logged # <<>> /\ Over)
     => /\ pc = "Done"
        /\ returned = [set |-> TRUE, results |-> results]
        /\ Len(results) = Len(filteredDiffs)
        /\ summary # NoSummary => \E n \in 1..Len(attempted) : attempted[n].via = "summary"

\* C15 witness: the batch notification failed, the summary notification was
\* attempted, and the run returned both results
C15_Witness ==
  /\ pc = "Done" /\ Len(returned.results) = 2
  /\ Failed("batch")
  /\ \E n \in 1..Len(attempted) : attempted[n].via = "summary"

\* C16: on a platform without batch submission, once the batch notification
\* is over, a submission has been attempted for every issue of every result,
\* whatever submissions failed.
C16_NoAbortMidway ==
  (~batchCapable /\ batchInput.set
     /\ \A n \in 1..Len(AllIssues(results)) : ~ReadThrows(AllIssues(results)[n]))
  => Len(attempted) >= Len(AllIssues(results))

\* C17: in reviewSingleFile a failed comment submission does not fail the
\* run: the remaining comments are submitted and the review result is
\* returned.
C17_SingleCommentFailure ==
  Failed("comment")
  => /\ failure # "submitReviewComment"
     /\ Over => /\ pc = "Done"
                /\ outcome = ReturnResult(reviewResult)
                /\ Len(attempted) = Len(reviewResult.issues)

\* C18: no content of the response texts makes review() fail in rendering the
\* report or in building the summary prompt.
C18_NoShapeFailure == failure \notin {"formatSingleFileReview", "buildSummaryPrompt"}

\* C19: at most one reviewCode call is pending, the call for a file starts
\* only when all files before it have their result, each filtered diff is
\* handed to reviewCode at most once and in order, only diffs the filter
\* keeps are reviewed, and a run that returns has one result per filtered
\* diff, in the order of the filtered diffs.
C19_Sequential ==
  /\ Cardinality(inflight) <= 1
  /\ inflight \subseteq {Len(results) + 1}
  /\ Count("reviewCode") = Len(invoked)
  /\ \A n \in 1..Len(invoked) : invoked[n] = n /\ n <= Len(filteredDiffs)
  /\ Len(results) <= Len(invoked) /\ Len(invoked) <= Len(results) + 1
  /\ \A n \in 1..Len(filteredDiffs) : ShouldKeep(filteredDiffs[n].newPath, config)
  /\ \A n \in 1..Len(results) : results[n].file = filteredDiffs[n].newPath
  /\ (pc = "Done" /\ diffs # <<>>)
     => /\ Len(results) = Len(filteredDiffs)
        /\ Len(invoked) = Len(filteredDiffs)
        /\ returned = [set |-> TRUE, results |-> results]

\* C19 witness: a run over two filtered diffs has returned its two results
C19_Witness == pc = "Done" /\ Len(filteredDiffs) = 2 /\ Len(returned.results) = 2

Positions(call) == {n \in 1..Len(calls) : calls[n] = call}
Precedes(a, b) == \A i \in Positions(a), j \in Positions(b) : i < j

\* C20: once the batch notification is called, every filtered file has been
\* reviewed and the results are saved; the summary, when there is one, was
\* generated before; the batch notification gets the full result list and
\* comes before the summary notification.
C20_RunOrdering ==
  Count("sendBatchReviewNotifications") + Count("sendSummaryNotification") > 0
  => /\ Len(results) = Len(filteredDiffs)
     /\ Count("reviewCode") = Len(filteredDiffs)
     /\ saved # <<>> /\ saved[1] = "results"
     /\ Precedes("reviewCode", "saveReviewResults")
     /\ \A call \in Notifications :
          /\ Precedes("saveReviewResults", call)
          /\ Precedes("generateSummary", call)
          /\ Precedes("saveSummary", call)
     /\ Count("sendBatchReviewNotifications") = 1
     /\ Precedes("sendBatchReviewNotifications", "sendSummaryNotification")
     /\ batchInput = [set |-> TRUE, results |-> results]
     /\ summary # NoSummary => Count("generateSummary") = 1
     /\ \A i, j \in 1..Len(attempted) :
          (i < j /\ attempted[i].via = "summary") => attempted[j].via = "summary"

\* C20 witness: a run with a summary has sent both notifications
C20_Witness ==
  /\ pc = "Done" /\ summary # NoSummary
  /\ Count("sendSummaryNotification") = 1
  /\ \E n \in 1..Len(delivered) : delivered[n].via = "summary"

(***************************************************************************)
(* Further properties of a run of reviewSingleFile (SpecSingleFile)        *)
(***************************************************************************)
TargetFound == ~TargetAbsent

\* one accepted comment per issue of the result, in issue order, on the
\* target's path and the issue's line
CommentPerIssue ==
  [n \in 1..Len(reviewResult.issues) |->
     Attempt("comment", targetFile, Get(reviewResult.issues[n], KLine), TRUE)]

\* C21: when the target's diff is found and nothing outside the program
\* fails, the finished run has called reviewCode once, for the target, then
\* submitReviewComment once per issue in issue order with the target's path
\* and the issue's line, and no batch or summary notification.
C21_PerIssueComments ==
  (TargetFound /\ Over
     /\ failure \notin {"getCodeDiffs", "reviewCode", "submitReviewComment"})
  => /\ Count("reviewCode") = 1
     /\ invoked = <<FindTarget(diffs, targetFile)>>
     /\ diffs[invoked[1]].newPath = targetFile
     /\ attempted = CommentPerIssue
     /\ Count("submitReviewComment") = Len(reviewResult.issues)
     /\ \A call \in Notifications : Count(call) = 0

\* the diff filter of review() would drop the target
FilterDropsTarget ==
  \E f \in {filterDiffs(<<Diff(targetFile)>>, config)} : ~f.thrown /\ f.diffs = <<>>

\* C27: reviewSingleFile does not filter: once getCodeDiffs has answered with
\* the target's diff, reviewCode is called for it whatever the configured
\* ignore, include and exclude lists say, and a run that goes through has
\* commented on its issues.
C27_SingleFileUnfiltered ==
  (TargetFound /\ pc # "SingleIdle" /\ failure # "getCodeDiffs")
  => /\ Count("reviewCode") = 1
     /\ invoked = <<FindTarget(diffs, targetFile)>>
     /\ pc = "Done" => /\ outcome = ReturnResult(reviewResult)
                       /\ attempted = CommentPerIssue

\* C27 witness: a target the filter of review() drops was reviewed and
\* commented on
C27_Witness ==
  /\ FilterDropsTarget /\ TargetFound
  /\ pc = "Done" /\ ~outcome.null
  /\ delivered # <<>>

(***************************************************************************)
(* Further properties of a run of review() (Spec)                          *)
(***************************************************************************)
\* C28: when getCodeDiffs returns diffs and the filter keeps none, review()
\* calls neither reviewCode nor generateSummary, still saves the empty result
\* list and calls the batch notification with it, and returns the empty
\* list; every run that returns over a non-empty change set has saved and
\* notified.
C28_AllFilteredOut ==
  /\ (diffs # <<>> /\ filteredDiffs = <<>> /\ pc # "Idle"
        /\ failure \notin {"getCodeDiffs", "filterDiffs"})
     => /\ Count("reviewCode") = 0 /\ Count("generateSummary") = 0
        /\ Count("sendSummaryNotification") = 0
        /\ results = <<>> /\ summary = NoSummary
        /\ pc = "Done"
           => /\ calls = <<"getCodeDiffs", "saveReviewResults",
                           "sendBatchReviewNotifications">>
              /\ saved = <<"results">>
              /\ batchInput = [set |-> TRUE, results |-> <<>>]
              /\ returned = [set |-> TRUE, results |-> <<>>]
  /\ (diffs # <<>> /\ pc = "Done")
     => /\ Count("saveReviewResults") = 1
        /\ Count("sendBatchReviewNotifications") = 1

\* C28 witness: a run whose diffs were all filtered out has returned
C28_Witness ==
  diffs # <<>> /\ filteredDiffs = <<>> /\ pc = "Done" /\ returned.set

\* C29: the error, warning and info counts of the summary prompt and of the
\* rendered report add up to the number of issues.
C29_CountsPartition ==
  /\ prompt.built
     => prompt.errorCount + prompt.warningCount + prompt.infoCount = prompt.issuesCount
  /\ \A n \in 1..Len(rendered) :
       rendered[n].errors + rendered[n].warnings + rendered[n].infos = rendered[n].total
  /\ batchInput.set
     => \E report \in {formatReviewResults(batchInput.results)} :
          \/ report.thrown
          \/ report.errorCount + report.warningCount + report.infoCount
               = report.totalIssues

(***************************************************************************)
(* Further properties of the parser (SpecParse)                            *)
(***************************************************************************)
Summary == parsed.result.summary
TextStrategy == Returned /\ content.t = "string" /\ parsed.via \notin {"json", "error"}

\* where the header section and the labelled line match the text
HeaderHits == {p \in 1..Len(content.s) : OverallAt(content.s, p) # 0}
LabelHits == {p \in 1..Len(content.s) : LabelledAt(content.s, p) # 0}

\* the text of each rule
HeaderText ==
  LET s == content.s
      o == OverallAt(s, CHOOSE p \in HeaderHits : \A x \in HeaderHits : p <= x)
      stops == {n \in o..Len(s) : s[n] = HASH}
      last == IF stops = {} THEN Len(s) ELSE (CHOOSE n \in stops : \A x \in stops : n <= x) - 1
  IN Trim(Slice(s, o, last))
LabelText ==
  LET s == content.s
      l == LabelledAt(s, CHOOSE p \in LabelHits : \A x \in LabelHits : p <= x)
  IN Trim(Slice(s, l, LineEnd(s, l)))
FirstParagraph == SplitParagraphs(content.s)[1]
LastParagraph == SplitParagraphs(content.s)[Len(SplitParagraphs(content.s))]

\* C22 as stated: header section, else labelled line, else the first
\* paragraph if it is shorter than 200 characters, else the last paragraph.
C22_RuleOrderAsStated ==
  TextStrategy
  => Summary = Str(IF HeaderHits # {} THEN HeaderText
                   ELSE IF LabelHits # {} THEN LabelText
                   ELSE IF StrLength(FirstParagraph) < ParagraphLimit
                     THEN Trim(FirstParagraph)
                   ELSE Trim(LastParagraph))

\* C22 amended: the summary of a text-strategy result is the header
\* section's text when the header matches; else the labelled line's text when
\* a labelled line matches; else the first paragraph when it is not empty and
\* shorter than 200 characters; else the last paragraph.
C22_RuleOrder ==
  TextStrategy
  => /\ HeaderHits # {} => Summary = Str(HeaderText)
     /\ (HeaderHits = {} /\ LabelHits # {}) => Summary = Str(LabelText)
     /\ (HeaderHits = {} /\ LabelHits = {} /\ FirstParagraph # <<>>
           /\ StrLength(FirstParagraph) < ParagraphLimit)
        => Summary = Str(Trim(FirstParagraph))
     /\ (HeaderHits = {} /\ LabelHits = {}
           /\ (FirstParagraph = <<>> \/ StrLength(FirstParagraph) >= ParagraphLimit))
        => Summary = Str(Trim(LastParagraph))

\* C22 witness: the header section and a labelled line both match, their
\* texts differ, and the header section's text is the summary
C22_Witness ==
  /\ TextStrategy /\ HeaderHits # {} /\ LabelHits # {}
  /\ HeaderText # LabelText
  /\ Summary = Str(HeaderText)

\* the lines of the text that begin with a label and a colon and go on with
\* something other than blanks
LabelLines ==
  LET s == content.s
  IN {p \in 1..(Len(s) - 2) :
        /\ p = 1 \/ s[p - 1] = NL
        /\ s[p] \in SummaryLabels /\ s[p + 1] \in Colons
        /\ s[p + 2] # NL
        /\ Trim(Slice(s, p + 2, LineEnd(s, p + 2))) # <<>>}

\* C23: when no header section matches and a line begins with a label and a
\* colon, the summary is the rest of the first such line, trimmed, whatever
\* follows the line.
C23_LabelledLine ==
  (TextStrategy /\ HeaderHits = {} /\ LabelLines # {})
  => \E p \in LabelLines :
       /\ \A x \in LabelLines : p <= x
       /\ Summary = Str(Trim(Slice(content.s, p + 2, LineEnd(content.s, p + 2))))

\* C24 as stated: whichever strategy produced the issues, the summary is what
\* extractSummary yields on the full text.
C24_AlwaysExtracted ==
  (Returned /\ content.t = "string" /\ parsed.via # "error")
  => Summary = Str(extractSummary(content.s))

\* the summary member of the document of the selected block
BlockSummary == Get(Fragment(frags[SelectedBlock(frags)]).value, KSummary)

\* C24 amended: the summary is what extractSummary yields on the full text
\* when the issues come from a text strategy; when a fenced JSON block is
\* accepted it is the block's summary member, or the empty string when the
\* block has none, and the text around the block is not looked at.
C24_SummarySource ==
  /\ TextStrategy => Summary = Str(extractSummary(content.s))
  /\ (Returned /\ parsed.via = "json")
     => Summary = IF Truthy(BlockSummary) THEN BlockSummary ELSE Str(<<>>)

\* C24 witness: a block without a summary member was accepted next to a
\* labelled line that the rules would have taken, and the summary is empty
C24_Witness ==
  /\ Returned /\ parsed.via = "json"
  /\ BlockSummary = Undef
  /\ LabelHits # {}
  /\ Summary = Str(<<>>)

\* C26: the file of every returned result is the filePath argument, also
\* when the accepted JSON document has a file member of its own.
C26_ResultFile ==
  Returned => parsed.result.file = filePath

\* C26 witness: a document whose file member differs from filePath was
\* accepted
C26_Witness ==
  /\ Returned /\ parsed.via = "json"
  /\ \E file \in {Get(Fragment(frags[SelectedBlock(frags)]).value, KFile)} :
       file.t = "string" /\ file.s # filePath
  /\ parsed.result.file = filePath

(***************************************************************************)
(* Properties of the custom prompt templates (SpecPrompt)                  *)
(***************************************************************************)
\* the placeholders replaced at once, each at its first occurrence and by
\* its value as it is
ReplaceAtOnce(text, patterns, replacements) ==
  Concat([n \in 1..Len(text) |->
            IF \E k \in 1..Len(patterns) :
                 patterns[k] = text[n] /\ IndexOf(text, <<text[n]>>, 1) = n
              THEN replacements[CHOOSE k \in 1..Len(patterns) : patterns[k] = text[n]]
              ELSE <<text[n]>>])

Custom(kind) ==
  builtPrompt.built /\ promptArguments.kind = kind /\ customPrompt # <<>>

\* the values hold no dollar sign
PlainValues ==
  \A v \in {promptArguments.language, promptArguments.newPath, promptArguments.diffContent,
            promptArguments.detailedResults} :
    \A n \in 1..Len(v) : v[n] # DOLLAR

\* C25: with a custom review template the prompt is the template with the
\* first occurrence of each of the three placeholders replaced by its value
\* and everything else, further occurrences and unknown placeholders
\* included, as it is in the template.
C25_FirstOccurrenceOnly ==
  Custom("review")
  => builtPrompt.text =
       ReplaceAtOnce(customPrompt, <<LANGUAGE, FILE_PATH, DIFF_CONTENT>>,
                     <<promptArguments.language, promptArguments.newPath,
                       promptArguments.diffContent>>)

\* C30: in a custom review or summary template every placeholder receives
\* its own value, and placeholder text inside a substituted value stays as
\* it is (for values without replacement patterns).
C30_ValuesNotRescanned ==
  /\ (Custom("review") /\ PlainValues)
     => builtPrompt.text =
          ReplaceAtOnce(customPrompt, <<LANGUAGE, FILE_PATH, DIFF_CONTENT>>,
                        <<promptArguments.language, promptArguments.newPath,
                          promptArguments.diffContent>>)
  /\ (Custom("summary") /\ PlainValues)
     => builtPrompt.text =
          ReplaceAtOnce(customPrompt,
                        <<FILES_COUNT, ISSUES_COUNT, RESULTS_SUMMARY, SEVERITY_DISTRIBUTION>>,
                        <<promptArguments.filesCount, promptArguments.issuesCount,
                          promptArguments.detailedResults,
                          promptArguments.severityDistribution>>)

=============================================================================
